---- MODULE Spec2Model ----
(***************************************************************************)
(* Withdrawal account selection of the stake-pool client library:          *)
(* prepareWithdrawAccounts and the fee / pool-token arithmetic it uses     *)
(* (dist/index.browser.cjs.js).                                            *)
(*                                                                         *)
(* JavaScript numbers that may be fractional (the results of               *)
(* divideBnToNumber and everything computed from them) are exact rationals *)
(* <<n, d>> in lowest terms with d > 0.                                    *)
(***************************************************************************)
EXTENDS Integers, Sequences, FiniteSets, TLC

\* ------------------------------------------------------------------ bounds
\* longest validator list read from the chain
MaxValidators == 2
\* largest small requested pool-token amount
MaxAmount == 3
\* largest numerator and denominator of the fees of SpecFee
MaxFee == 4
\* largest active stake of SpecFee
MaxStake == 5

\* ------------------------------------------------------- program constants
MINIMUM_ACTIVE_STAKE == 1000000
LAMPORTS_PER_SOL == 1000000000

\* ValidatorStakeInfoStatus
StatusActive == 0
StatusDeactivatingTransient == 1
StatusReadyForRemoval == 2

types_Swapped == <<"active", "preferred", "transient", "reserve">>

\* const types = ['preferred', 'active', 'transient', 'reserve']
types == <<"preferred", "active", "transient", "reserve">>

\* an absent public key (null / undefined); addresses are 1, 2, ...
NullKey == 0

\* ------------------------------------------------------ rational numbers
Abs(x) == IF x < 0 THEN -x ELSE x

RECURSIVE Gcd(_, _)
Gcd(a, b) == IF b = 0 THEN a ELSE Gcd(b, a % b)

\* n / d as a JavaScript number, d # 0
Rat(n, d) ==
    LET g == Gcd(Abs(n), Abs(d))
        s == IF d < 0 THEN -1 ELSE 1
    IN  <<(s * n) \div g, (s * d) \div g>>

IntRat(n) == <<n, 1>>
RatAdd(x, y) == Rat(x[1] * y[2] + y[1] * x[2], x[2] * y[2])
RatSub_Kept(x, y) == x
RatSub(x, y) == Rat(x[1] * y[2] - y[1] * x[2], x[2] * y[2])
RatMul(x, y) == Rat(x[1] * y[1], x[2] * y[2])
RatLe(x, y) == x[1] * y[2] <= y[1] * x[2]
RatLt(x, y) == x[1] * y[2] < y[1] * x[2]
RatIsZero(x) == x[1] = 0
RatIsInt(x) == x[2] = 1
\* Math.min
MathMin(x, y) == IF RatLe(x, y) THEN x ELSE y
MathFloor_Ceil(x) == -((-x[1]) \div x[2])
\* Math.floor
MathFloor(x) == x[1] \div x[2]

\* ------------------------------------------------------------ BN methods
\* BN.div: truncating division
BNdiv(a, b) ==
    LET q == Abs(a) \div Abs(b)
    IN  IF (a < 0) = (b < 0) THEN q ELSE -q

BNumod_Zero(a, b) == 0

\* BN.umod: non-negative remainder
BNumod(a, b) ==
    LET m == Abs(a) % Abs(b)
    IN  IF a >= 0 \/ m = 0 THEN m ELSE Abs(b) - m

\* BN.gcd: gcd of the absolute values
BNgcd(a, b) == Gcd(Abs(a), Abs(b))

\* ------------------------------------------------------------ arithmetic
divideBnToNumber_Quotient(numerator, denominator) ==
    IF denominator = 0
    THEN IntRat(0)
    ELSE IntRat(BNdiv(numerator, denominator))

divideBnToNumber(numerator, denominator) ==
    IF denominator = 0
    THEN IntRat(0)
    ELSE LET quotient == BNdiv(numerator, denominator)
             rem == BNumod(numerator, denominator)
             gcd == BNgcd(rem, denominator)
         IN  RatAdd(IntRat(quotient),
                    Rat(BNdiv(rem, gcd), BNdiv(denominator, gcd)))

calcPoolTokensForDeposit_NoBootstrap(pool, stakeLamports) ==
    MathFloor(divideBnToNumber(stakeLamports * pool.poolTokenSupply,
                               pool.totalLamports))

calcPoolTokensForDeposit(pool, stakeLamports) ==
    IF pool.poolTokenSupply = 0 \/ pool.totalLamports = 0
    THEN stakeLamports
    ELSE MathFloor(divideBnToNumber(stakeLamports * pool.poolTokenSupply,
                                    pool.totalLamports))

calcLamportsWithdrawAmount_NoGuard(pool, poolTokens) ==
    divideBnToNumber(poolTokens * pool.totalLamports, pool.poolTokenSupply)

calcLamportsWithdrawAmount(pool, poolTokens) ==
    LET numerator == poolTokens * pool.totalLamports
        denominator == pool.poolTokenSupply
    IN  IF numerator < denominator
        THEN IntRat(0)
        ELSE divideBnToNumber(numerator, denominator)

\* lamportsToSol of a JavaScript number
lamportsToSol(lamports) == Rat(Abs(lamports), LAMPORTS_PER_SOL)

\* ------------------------------------------------- program addresses
findStakeProgramAddress(voteAccountAddress) == <<"stake", voteAccountAddress>>
findTransientStakeProgramAddress(voteAccountAddress, seed) ==
    <<"transient", voteAccountAddress, seed>>
ReserveStakeAddress == <<"reserve">>

\* ------------------------------------------------------------ input sets
StatusValues == {StatusActive, StatusDeactivatingTransient, StatusReadyForRemoval}
ActiveValues == {0, 1}
\* getMinimumBalanceForRentExemption(StakeProgram.space)
RentValues == {2}
\* transient balances around the two thresholds of the selector
TransientValues(rent) ==
    LET minBalance == rent + MINIMUM_ACTIVE_STAKE
    IN  {0, minBalance + 1, 2 * minBalance + 1}
\* getAccountInfo(reserveStake): <<>> when the account is missing, else the
\* account
ReserveValues(rent) ==
    {<<>>} \cup {<<[lamports |-> l]>> : l \in {rent + 1, rent + 3}}
\* (totalLamports, poolTokenSupply)
PoolRates == {<<0, 0>>, <<2, 1>>}
\* stakeWithdrawalFee as (numerator, denominator)
FeeValues == {<<0, 1>>, <<1, 3>>}
VoteAddresses == 1 .. MaxValidators
ManagerFeeAccount == "managerFeeAccount"
\* no validatorComparator was passed
NoCompareFn == "undefined"
CompareFns == {NoCompareFn, "lamportsAscending", "keepOrder"}
TokenAccounts == {ManagerFeeAccount, "userTokenAccount"}
\* requested pool tokens: small ones, and ones that reach a transient stake
\* account and past it
AmountValues(rent) ==
    (0 .. MaxAmount)
        \cup {rent + MINIMUM_ACTIVE_STAKE + 1 + a : a \in 1 .. MaxAmount}

\* an Active validator has any of the balances; a validator of another status
\* still holds stake in both of its accounts
ValidatorInfo(vote, rent) ==
    [status : {StatusActive},
     voteAccountAddress : {vote},
     activeStakeLamports : ActiveValues,
     transientStakeLamports : TransientValues(rent),
     transientSeedSuffixStart : {0}]
    \cup
    [status : StatusValues \ {StatusActive},
     voteAccountAddress : {vote},
     activeStakeLamports : {1},
     transientStakeLamports : {2 * (rent + MINIMUM_ACTIVE_STAKE) + 1},
     transientSeedSuffixStart : {0}]

\* validator lists of a given length; the vote addresses of a list are
\* distinct
ValidatorLists(n, rent) ==
    {l \in [1 .. n -> UNION {ValidatorInfo(v, rent) : v \in VoteAddresses}] :
        \A i \in 1 .. n : l[i].voteAccountAddress = i}

\* ------------------------------------------------------------------ state
VARIABLES
    stakePool,                  \* decoded pool account
    validatorList,              \* validators of the decoded validator list
    reserveStake,               \* the reserve account, <<>> when missing
    minBalanceForRentExemption, \* rent exemption of a stake account
    poolTokenAccount,           \* token account the withdrawal is made from
    amount,                     \* requested pool tokens
    compareFn,                  \* argument of prepareWithdrawAccounts
    skipFee,                    \* argument of prepareWithdrawAccounts
    pc,                         \* position in prepareWithdrawAccounts
    accounts,                   \* withdraw candidates
    withdrawFrom,               \* allocations recorded so far
    remainingAmount,            \* rational
    typeIdx,                    \* index into types of the outer loop
    idx,                        \* index into filteredAccounts of the inner loop
    walked,                     \* history: candidates the inner loop visited
    result,                     \* what the call returned or threw
    invoked,                    \* library function under call, its arguments
    data,                       \* bytes of the buffer the call works on
    returned                    \* what the calls made so far returned

vars == <<stakePool, validatorList, reserveStake, minBalanceForRentExemption,
          poolTokenAccount, amount, compareFn, skipFee, pc, accounts,
          withdrawFrom, remainingAmount, typeIdx, idx, walked, result,
          invoked, data, returned>>

\* the state of a prepareWithdrawAccounts call
selector == <<stakePool, validatorList, reserveStake,
              minBalanceForRentExemption, poolTokenAccount, amount, compareFn,
              skipFee, pc, accounts, withdrawFrom, remainingAmount, typeIdx,
              idx, walked, result>>

\* the state of a call of one of the exported helpers
library == <<invoked, data, returned>>

\* no helper is under call
NoCall == [fn |-> "none", args |-> <<>>]

inputs == <<stakePool, validatorList, reserveStake,
            minBalanceForRentExemption, poolTokenAccount, amount, compareFn>>

NoResult == [kind |-> "none", plan |-> <<>>, error |-> "", amount |-> IntRat(0)]

\* the call has not started
InitCall ==
    /\ skipFee = FALSE
    /\ pc = "start"
    /\ accounts = <<>>
    /\ withdrawFrom = <<>>
    /\ remainingAmount = IntRat(0)
    /\ typeIdx = 1
    /\ idx = 1
    /\ walked = <<>>
    /\ result = NoResult
    /\ invoked = NoCall
    /\ data = <<>>
    /\ returned = <<>>

Init ==
    /\ \E rate \in PoolRates, f \in FeeValues,
          pref \in {NullKey, MaxValidators} :
           stakePool = [totalLamports |-> rate[1],
                        poolTokenSupply |-> rate[2],
                        stakeWithdrawalFee |->
                            [numerator |-> f[1], denominator |-> f[2]],
                        preferredWithdrawValidatorVoteAddress |-> pref,
                        managerFeeAccount |-> ManagerFeeAccount]
    /\ minBalanceForRentExemption \in RentValues
    /\ \E n \in 0 .. MaxValidators :
           validatorList \in ValidatorLists(n, minBalanceForRentExemption)
    /\ reserveStake \in ReserveValues(minBalanceForRentExemption)
    /\ poolTokenAccount \in TokenAccounts
    /\ amount \in AmountValues(minBalanceForRentExemption)
    /\ compareFn = NoCompareFn
    /\ InitCall

\* a second set of inputs: every fee over a small range and one validator
\* whose active stake covers a range of pool-token values
InitFee ==
    /\ \E rate \in PoolRates, n \in 0 .. MaxFee, d \in 0 .. MaxFee :
           stakePool = [totalLamports |-> rate[1],
                        poolTokenSupply |-> rate[2],
                        stakeWithdrawalFee |->
                            [numerator |-> n, denominator |-> d],
                        preferredWithdrawValidatorVoteAddress |-> NullKey,
                        managerFeeAccount |-> ManagerFeeAccount]
    /\ minBalanceForRentExemption \in RentValues
    /\ \E l \in 0 .. MaxStake :
           validatorList = <<[status |-> StatusActive,
                              voteAccountAddress |-> 1,
                              activeStakeLamports |-> l,
                              transientStakeLamports |-> 0,
                              transientSeedSuffixStart |-> 0]>>
    /\ reserveStake \in ReserveValues(minBalanceForRentExemption)
    /\ poolTokenAccount \in TokenAccounts
    /\ amount \in 0 .. MaxAmount
    /\ compareFn = NoCompareFn
    /\ InitCall

\* a third set of inputs: every validator active with its own stake, so that
\* the order of the candidates matters, and a caller's comparator
InitCompare ==
    /\ \E pref \in {NullKey, MaxValidators} :
           stakePool = [totalLamports |-> 0,
                        poolTokenSupply |-> 0,
                        stakeWithdrawalFee |->
                            [numerator |-> 0, denominator |-> 1],
                        preferredWithdrawValidatorVoteAddress |-> pref,
                        managerFeeAccount |-> ManagerFeeAccount]
    /\ minBalanceForRentExemption \in RentValues
    /\ validatorList \in
           [1 .. MaxValidators ->
               [status : {StatusActive},
                activeStakeLamports : 1 .. MaxAmount,
                transientStakeLamports :
                    {0} \cup {2 * (minBalanceForRentExemption
                                       + MINIMUM_ACTIVE_STAKE) + t : t \in 1 .. 2},
                transientSeedSuffixStart : {0},
                voteAccountAddress : VoteAddresses]]
    /\ \A i \in 1 .. MaxValidators : validatorList[i].voteAccountAddress = i
    /\ reserveStake = <<>>
    /\ poolTokenAccount = "userTokenAccount"
    /\ amount \in {1, 4 * (minBalanceForRentExemption + MINIMUM_ACTIVE_STAKE)}
    /\ compareFn \in CompareFns
    /\ InitCall

\* ---------------------------------------------------- candidate building
minBalance == minBalanceForRentExemption + MINIMUM_ACTIVE_STAKE

contributes_UnlessRemoved(validator) ==
    validator.status # StatusReadyForRemoval

\* line 645: validators whose status is not Active are passed by
contributes(validator) == validator.status = StatusActive

\* the candidates one validator contributes (body of the first loop)
ValidatorAccounts(pool, validator, minBal) ==
    IF ~contributes(validator)
    THEN <<>>
    ELSE LET stakeAccountAddress ==
                 findStakeProgramAddress(validator.voteAccountAddress)
             isPreferred ==
                 pool.preferredWithdrawValidatorVoteAddress
                     = validator.voteAccountAddress
             activeAccount ==
                 IF validator.activeStakeLamports # 0
                 THEN <<[type |-> IF isPreferred THEN "preferred" ELSE "active",
                         voteAddress |-> validator.voteAccountAddress,
                         stakeAddress |-> stakeAccountAddress,
                         lamports |-> validator.activeStakeLamports]>>
                 ELSE <<>>
             transientStakeLamports ==
                 validator.transientStakeLamports - minBal
             transientAccount ==
                 IF transientStakeLamports > 0
                 THEN <<[type |-> "transient",
                         voteAddress |-> validator.voteAccountAddress,
                         stakeAddress |->
                             findTransientStakeProgramAddress(
                                 validator.voteAccountAddress,
                                 validator.transientSeedSuffixStart),
                         lamports |-> transientStakeLamports]>>
                 ELSE <<>>
         IN  activeAccount \o transientAccount

RECURSIVE BuildAccounts(_, _, _)
BuildAccounts(pool, validators, minBal) ==
    IF validators = <<>>
    THEN <<>>
    ELSE ValidatorAccounts(pool, Head(validators), minBal)
             \o BuildAccounts(pool, Tail(validators), minBal)

\* (a, b) => b.lamports - a.lamports
defaultCompare(a, b) == b.lamports - a.lamports

\* the comparators a caller passes as validatorComparator
\* (a, b) => a.lamports - b.lamports and () => 0
callerCompare(fn, a, b) ==
    IF fn = "lamportsAscending"
    THEN a.lamports - b.lamports
    ELSE 0

compare_Layered(a, b) ==
    IF compareFn = NoCompareFn \/ callerCompare(compareFn, a, b) = 0
    THEN defaultCompare(a, b)
    ELSE callerCompare(compareFn, a, b)

\* line 670: compareFn || ((a, b) => b.lamports - a.lamports)
compare(a, b) ==
    IF compareFn = NoCompareFn
    THEN defaultCompare(a, b)
    ELSE callerCompare(compareFn, a, b)

\* Array.prototype.sort is stable: x goes behind every element that does not
\* compare after it
RECURSIVE SortInsert(_, _)
SortInsert(sorted, x) ==
    IF sorted = <<>>
    THEN <<x>>
    ELSE IF compare(Head(sorted), x) <= 0
         THEN <<Head(sorted)>> \o SortInsert(Tail(sorted), x)
         ELSE <<x>> \o sorted

RECURSIVE SortAccounts(_)
SortAccounts(accs) ==
    IF accs = <<>>
    THEN <<>>
    ELSE SortInsert(SortAccounts(SubSeq(accs, 1, Len(accs) - 1)),
                    accs[Len(accs)])

\* lines 634-670: read the validator list, build and sort the candidates
PrepareAccounts ==
    /\ pc = "start"
    /\ skipFee' = (poolTokenAccount = stakePool.managerFeeAccount)
    /\ IF Len(validatorList) = 0
       THEN /\ pc' = "failed"
            /\ result' = [NoResult EXCEPT !.kind = "error",
                                          !.error = "No accounts found"]
            /\ UNCHANGED accounts
       ELSE /\ pc' = "reserve"
            /\ accounts' =
                   SortAccounts(BuildAccounts(stakePool, validatorList,
                                              minBalance))
            /\ UNCHANGED result
    /\ UNCHANGED <<library, inputs, withdrawFrom, remainingAmount, typeIdx, idx, walked>>

reserveStakeBalance_NoMargin ==
    (IF reserveStake = <<>> THEN 0 ELSE reserveStake[1].lamports)
        - minBalanceForRentExemption

\* lines 671-687: append the reserve candidate, start the walk
reserveStakeBalance ==
    (IF reserveStake = <<>> THEN 0 ELSE reserveStake[1].lamports)
        - minBalanceForRentExemption - 1

AppendReserve ==
    /\ pc = "reserve"
    /\ accounts' =
           IF reserveStakeBalance > 0
           THEN Append(accounts, [type |-> "reserve",
                                  voteAddress |-> NullKey,
                                  stakeAddress |-> ReserveStakeAddress,
                                  lamports |-> reserveStakeBalance])
           ELSE accounts
    /\ withdrawFrom' = <<>>
    /\ remainingAmount' = IntRat(amount)
    /\ typeIdx' = 1
    /\ idx' = 1
    /\ pc' = "walk"
    /\ UNCHANGED <<library, inputs, skipFee, walked, result>>

\* ------------------------------------------------------------- the walk
inverseFee ==
    [numerator |-> stakePool.stakeWithdrawalFee.denominator
                       - stakePool.stakeWithdrawalFee.numerator,
     denominator |-> stakePool.stakeWithdrawalFee.denominator]

availableForWithdrawal_NoSkip(pool, lamports, skip) ==
    LET fee == pool.stakeWithdrawalFee
        invNumerator == fee.denominator - fee.numerator
        invDenominator == fee.denominator
        tokens == calcPoolTokensForDeposit(pool, lamports)
    IN  IF invNumerator # 0
        THEN divideBnToNumber(tokens * invDenominator, invNumerator)
        ELSE IntRat(tokens)

\* lines 694-697: pool tokens a candidate of the given lamports can serve
availableForWithdrawal(pool, lamports, skip) ==
    LET fee == pool.stakeWithdrawalFee
        invNumerator == fee.denominator - fee.numerator
        invDenominator == fee.denominator
        tokens == calcPoolTokensForDeposit(pool, lamports)
    IN  IF ~skip /\ invNumerator # 0
        THEN divideBnToNumber(tokens * invDenominator, invNumerator)
        ELSE IntRat(tokens)

filteredAccounts == SelectSeq(accounts, LAMBDA a : a.type = types[typeIdx])

\* line 691
skipsTransient(candidate, minBal) ==
    candidate.lamports <= minBal /\ candidate.type = "transient"

poolAmountOf_Available(available, remaining) == available

\* line 698: const poolAmount = Math.min(availableForWithdrawal, remainingAmount)
poolAmountOf(available, remaining) == MathMin(available, remaining)

walkIsOver_Never(remaining) == FALSE

\* lines 705, 709: if (remainingAmount === 0) break
walkIsOver(remaining) == RatIsZero(remaining)

\* lines 690-708: one iteration of the inner loop
WalkCandidate ==
    /\ pc = "walk"
    /\ idx <= Len(filteredAccounts)
    /\ LET candidate == filteredAccounts[idx]
           available == availableForWithdrawal(stakePool, candidate.lamports,
                                               skipFee)
           poolAmount == poolAmountOf(available, remainingAmount)
       IN  /\ walked' = Append(walked, candidate.stakeAddress)
           /\ IF skipsTransient(candidate, minBalance)
                 \/ RatLe(poolAmount, IntRat(0))
              THEN /\ idx' = idx + 1
                   /\ UNCHANGED <<withdrawFrom, remainingAmount, pc>>
              ELSE /\ withdrawFrom' =
                          Append(withdrawFrom,
                                 [stakeAddress |-> candidate.stakeAddress,
                                  voteAddress |-> candidate.voteAddress,
                                  poolAmount |-> poolAmount])
                   /\ remainingAmount' = RatSub(remainingAmount, poolAmount)
                   /\ IF walkIsOver(remainingAmount')
                      THEN pc' = "check" /\ UNCHANGED idx
                      ELSE idx' = idx + 1 /\ UNCHANGED pc
    /\ UNCHANGED <<library, inputs, skipFee, accounts, typeIdx, result>>

\* lines 688-689, 709-712: the inner loop ran out of candidates
NextType ==
    /\ pc = "walk"
    /\ idx > Len(filteredAccounts)
    /\ IF walkIsOver(remainingAmount) \/ typeIdx = Len(types)
       THEN pc' = "check" /\ UNCHANGED <<typeIdx, idx>>
       ELSE typeIdx' = typeIdx + 1 /\ idx' = 1 /\ UNCHANGED pc
    /\ UNCHANGED <<library, inputs, skipFee, accounts, withdrawFrom, remainingAmount,
                   walked, result>>

notEnoughStake_Never(remaining) == FALSE

\* line 714: if (remainingAmount > 0)
notEnoughStake(remaining) == RatLt(IntRat(0), remaining)

\* lines 713-717
Finish ==
    /\ pc = "check"
    /\ IF notEnoughStake(remainingAmount)
       THEN /\ pc' = "failed"
            /\ result' = [NoResult EXCEPT
                              !.kind = "error",
                              !.error = "No stake accounts found in this pool with enough balance",
                              !.amount = lamportsToSol(amount)]
       ELSE /\ pc' = "done"
            /\ result' = [NoResult EXCEPT !.kind = "plan",
                                          !.plan = withdrawFrom]
    /\ UNCHANGED <<library, inputs, skipFee, accounts, withdrawFrom, remainingAmount,
                   typeIdx, idx, walked>>

Next ==
    \/ PrepareAccounts
    \/ AppendReserve
    \/ WalkCandidate
    \/ NextType
    \/ Finish

Spec == Init /\ [][Next]_vars

SpecFee == InitFee /\ [][Next]_vars

SpecCompare == InitCompare /\ [][Next]_vars

\* ================================================================ claims
\* rank of a tier in the priority order preferred, active, transient, reserve
TierRank(type) ==
    CASE type = "preferred" -> 1
      [] type = "active" -> 2
      [] type = "transient" -> 3
      [] type = "reserve" -> 4

\* the candidate behind a stake address
CandidateAt(stakeAddress) ==
    CHOOSE a \in {accounts[k] : k \in 1 .. Len(accounts)} :
        a.stakeAddress = stakeAddress

AllocationRank(allocation) == TierRank(CandidateAt(allocation.stakeAddress).type)

\* first position of a stake address in the walk history, 0 when unvisited
walkedAt(stakeAddress) ==
    IF \E p \in 1 .. Len(walked) : walked[p] = stakeAddress
    THEN CHOOSE p \in 1 .. Len(walked) :
             /\ walked[p] = stakeAddress
             /\ \A q \in 1 .. p - 1 : walked[q] # stakeAddress
    ELSE 0

Terminated == pc \in {"done", "failed"}
InsufficientBalance ==
    result.kind = "error" /\ result.error # "No accounts found"

\* C1: the allocations of a plan follow the tier order preferred, active,
\* transient, reserve, and a candidate is drawn from only after every
\* candidate of all earlier tiers has been walked.
C1_TierOrder ==
    /\ \A i, j \in 1 .. Len(withdrawFrom) :
           i < j => AllocationRank(withdrawFrom[i])
                        <= AllocationRank(withdrawFrom[j])
    /\ \A i \in 1 .. Len(withdrawFrom), k \in 1 .. Len(accounts) :
           TierRank(accounts[k].type) < AllocationRank(withdrawFrom[i])
               => /\ walkedAt(accounts[k].stakeAddress) > 0
                  /\ walkedAt(accounts[k].stakeAddress)
                         < walkedAt(withdrawFrom[i].stakeAddress)
    /\ result.kind = "plan" => result.plan = withdrawFrom

\* a returned plan that draws from three tiers
C1_Witness ==
    /\ result.kind = "plan"
    /\ Cardinality({AllocationRank(result.plan[i]) :
                        i \in 1 .. Len(result.plan)}) >= 3

\* C2: the call fails with the insufficient-balance error exactly when all
\* four tiers have been walked and the remaining amount is still positive;
\* the error names the requested amount and no plan is returned.
C2_InsufficientBalance ==
    (Terminated /\ result.error # "No accounts found") =>
        /\ InsufficientBalance <=> RatLt(IntRat(0), remainingAmount)
        /\ InsufficientBalance =>
               /\ \A k \in 1 .. Len(accounts) :
                      walkedAt(accounts[k].stakeAddress) > 0
               /\ result.amount = Rat(amount, LAMPORTS_PER_SOL)
               /\ result.plan = <<>>
        /\ ~InsufficientBalance => result = [NoResult EXCEPT !.kind = "plan",
                                                            !.plan = withdrawFrom]

\* a failed call that had allocated part of the request
C2_Witness ==
    /\ InsufficientBalance
    /\ withdrawFrom # <<>>
    /\ remainingAmount # IntRat(amount)

PassedOver(candidate) ==
    candidate.type = "transient" /\ candidate.lamports <= minBalance

\* the candidate can serve the whole request
CoversRequest(candidate) ==
    /\ amount > 0
    /\ RatLe(IntRat(amount),
             availableForWithdrawal(stakePool, candidate.lamports, skipFee))

\* nothing is walked or allocated after the allocation that brought the
\* remaining amount to zero
StopsAtZero ==
    (withdrawFrom # <<>> /\ RatIsZero(remainingAmount)) =>
        /\ pc \in {"check", "done"}
        /\ walked[Len(walked)] = withdrawFrom[Len(withdrawFrom)].stakeAddress

Built == pc \in {"reserve", "walk", "check", "done"} \/ InsufficientBalance
\* the reserve candidate has been decided as well
Selected == pc \in {"walk", "check", "done"} \/ InsufficientBalance

FeeSkipped == poolTokenAccount = stakePool.managerFeeAccount

\* pool tokens grossed up by the inverse of the withdrawal fee
GrossedUp(tokens) ==
    Rat(tokens * stakePool.stakeWithdrawalFee.denominator,
        stakePool.stakeWithdrawalFee.denominator
            - stakePool.stakeWithdrawalFee.numerator)

\* C5 as stated (for fees with a nonzero denominator; C7 is about the
\* others): a candidate's available pool tokens are its pool-token value
\* grossed up by the inverse fee unless the withdrawal is made from the
\* manager fee account, and then they are the pool-token value itself.
C5_Original ==
    (Built /\ stakePool.stakeWithdrawalFee.denominator # 0) =>
        /\ skipFee = FeeSkipped
        /\ \A k \in 1 .. Len(accounts) :
               LET tokens == calcPoolTokensForDeposit(stakePool,
                                                      accounts[k].lamports)
                   available == availableForWithdrawal(stakePool,
                                                       accounts[k].lamports,
                                                       skipFee)
               IN  IF FeeSkipped
                   THEN available = IntRat(tokens)
                   ELSE /\ stakePool.stakeWithdrawalFee.denominator
                               # stakePool.stakeWithdrawalFee.numerator
                        /\ available = GrossedUp(tokens)

\* C5 (amended): a candidate's available pool tokens are its pool-token
\* value itself when the withdrawal is made from the manager fee account or
\* when the fee's numerator equals its denominator, and otherwise that value
\* times denominator / (denominator - numerator).
C5_Available ==
    Built =>
        /\ skipFee = FeeSkipped
        /\ \A k \in 1 .. Len(accounts) :
               LET tokens == calcPoolTokensForDeposit(stakePool,
                                                      accounts[k].lamports)
                   available == availableForWithdrawal(stakePool,
                                                       accounts[k].lamports,
                                                       skipFee)
               IN  IF FeeSkipped
                      \/ stakePool.stakeWithdrawalFee.denominator
                             = stakePool.stakeWithdrawalFee.numerator
                   THEN available = IntRat(tokens)
                   ELSE available = GrossedUp(tokens)

\* a plan drawn from a candidate whose pool tokens were grossed up to a
\* fraction, and a fee account's plan beside a fee
C5_Witness ==
    /\ result.kind = "plan"
    /\ ~FeeSkipped
    /\ stakePool.stakeWithdrawalFee = [numerator |-> 1, denominator |-> 3]
    /\ \E i \in 1 .. Len(result.plan) : ~RatIsInt(result.plan[i].poolAmount)

\* C6: for a fee 0 < numerator < denominator, deducting the fee from the
\* grossed-up amount the selector computes gives back the pool-token value:
\* g - g * numerator / denominator = t.
C6_InversionUndoesFee ==
    LET fee == stakePool.stakeWithdrawalFee
    IN  (Built /\ 0 < fee.numerator /\ fee.numerator < fee.denominator) =>
            \A k \in 1 .. Len(accounts) :
                LET t == calcPoolTokensForDeposit(stakePool,
                                                  accounts[k].lamports)
                    g == availableForWithdrawal(stakePool,
                                                accounts[k].lamports, FALSE)
                IN  RatSub(g, RatMul(g, Rat(fee.numerator, fee.denominator)))
                        = IntRat(t)

\* an allocation of a grossed-up amount that is not a whole number
C6_Witness ==
    /\ pc = "done"
    /\ ~skipFee
    /\ 0 < stakePool.stakeWithdrawalFee.numerator
    /\ stakePool.stakeWithdrawalFee.numerator
           < stakePool.stakeWithdrawalFee.denominator
    /\ \E i \in 1 .. Len(withdrawFrom) :
           /\ ~RatIsInt(withdrawFrom[i].poolAmount)
           /\ withdrawFrom[i].poolAmount
                  = availableForWithdrawal(
                        stakePool,
                        CandidateAt(withdrawFrom[i].stakeAddress).lamports,
                        FALSE)

\* the candidates in the order the two loops visit them
RECURSIVE WalkOrder(_, _)
WalkOrder(accs, t) ==
    IF t > Len(types)
    THEN <<>>
    ELSE SelectSeq(accs, LAMBDA a : a.type = types[t]) \o WalkOrder(accs, t + 1)

\* the allocations and the remainder the walk ends with
RECURSIVE WalkFrom(_, _, _, _, _, _)
WalkFrom(pool, candidates, remaining, plan, skip, minBal) ==
    IF candidates = <<>> \/ walkIsOver(remaining)
    THEN [plan |-> plan, remaining |-> remaining]
    ELSE LET candidate == Head(candidates)
             available == availableForWithdrawal(pool, candidate.lamports, skip)
             poolAmount == poolAmountOf(available, remaining)
         IN  IF skipsTransient(candidate, minBal) \/ RatLe(poolAmount, IntRat(0))
             THEN WalkFrom(pool, Tail(candidates), remaining, plan, skip, minBal)
             ELSE WalkFrom(pool, Tail(candidates),
                           RatSub(remaining, poolAmount),
                           Append(plan,
                                  [stakeAddress |-> candidate.stakeAddress,
                                   voteAddress |-> candidate.voteAddress,
                                   poolAmount |-> poolAmount]),
                           skip, minBal)

\* what prepareWithdrawAccounts returns or throws for a pool and candidates
SelectorResult(pool, accs, requested, skip, minBal) ==
    LET end == WalkFrom(pool, WalkOrder(accs, 1), IntRat(requested), <<>>,
                        skip, minBal)
    IN  IF notEnoughStake(end.remaining)
        THEN [NoResult EXCEPT
                  !.kind = "error",
                  !.error = "No stake accounts found in this pool with enough balance",
                  !.amount = lamportsToSol(requested)]
        ELSE [NoResult EXCEPT !.kind = "plan", !.plan = end.plan]

\* the steps of the walk end with the result of the walk as a whole
WalkAgrees ==
    (Terminated /\ result.error # "No accounts found") =>
        result = SelectorResult(stakePool, accounts, amount, skipFee, minBalance)

\* C7: with a stakeWithdrawalFee of denominator zero the call returns the
\* plan, or the failure, it returns for the fee 0/1 and the same other inputs.
C7_ZeroDenominatorIsNoFee ==
    (/\ Terminated
     /\ result.error # "No accounts found"
     /\ stakePool.stakeWithdrawalFee.denominator = 0) =>
        result = SelectorResult(
                     [stakePool EXCEPT
                          !.stakeWithdrawalFee =
                              [numerator |-> 0, denominator |-> 1]],
                     accounts, amount, skipFee, minBalance)

ValidatorsOf(list) == {list[i] : i \in 1 .. Len(list)}
CandidatesOf(voteAddress) ==
    {accounts[k] : k \in {j \in 1 .. Len(accounts) :
                              accounts[j].voteAddress = voteAddress}}
ActiveStakeCandidatesOf(voteAddress) ==
    {a \in CandidatesOf(voteAddress) : a.type \in {"preferred", "active"}}

\* C8: a validator whose status is not Active contributes no candidate; an
\* Active one contributes an active-stake candidate exactly when its
\* activeStakeLamports are not zero, carrying them, tagged preferred exactly
\* when its vote address is the pool's preferred withdraw validator.
C8_Candidates ==
    Built =>
        \A v \in ValidatorsOf(validatorList) :
            IF v.status # StatusActive
            THEN CandidatesOf(v.voteAccountAddress) = {}
            ELSE ActiveStakeCandidatesOf(v.voteAccountAddress) =
                     IF v.activeStakeLamports # 0
                     THEN {[type |->
                                IF v.voteAccountAddress =
                                       stakePool.preferredWithdrawValidatorVoteAddress
                                THEN "preferred" ELSE "active",
                            voteAddress |-> v.voteAccountAddress,
                            stakeAddress |-> <<"stake", v.voteAccountAddress>>,
                            lamports |-> v.activeStakeLamports]}
                     ELSE {}

\* a preferred and an active candidate beside nothing of a validator that is
\* being removed with stake in its accounts
C8_Witness ==
    /\ Built
    /\ \E v \in ValidatorsOf(validatorList) :
           /\ v.status = StatusReadyForRemoval
           /\ v.activeStakeLamports # 0
    /\ \E k \in 1 .. Len(accounts) : accounts[k].type = "preferred"

\* C9: every transient candidate carries the excess of its validator's
\* transient stake over the minimum balance, built when that excess is
\* positive, and none is passed over by the walk's check of its lamports
\* against the minimum balance.
C9_TransientSkipIsDefensive ==
    Built =>
        /\ \A v \in ValidatorsOf(validatorList) :
               v.status = StatusActive =>
                   {a \in CandidatesOf(v.voteAccountAddress) :
                        a.type = "transient"} =
                       IF v.transientStakeLamports - minBalance > 0
                       THEN {[type |-> "transient",
                              voteAddress |-> v.voteAccountAddress,
                              stakeAddress |->
                                  <<"transient", v.voteAccountAddress,
                                    v.transientSeedSuffixStart>>,
                              lamports |->
                                  v.transientStakeLamports - minBalance]}
                       ELSE {}
        /\ \A p \in 1 .. Len(walked) : ~PassedOver(CandidateAt(walked[p]))

\* C10: the candidates hold one reserve candidate, of the reserve balance
\* less the rent exemption less 1, when that is positive and none otherwise;
\* it stands behind all validator candidates.
C10_Reserve ==
    Selected =>
        LET balance == (IF reserveStake = <<>>
                        THEN 0 ELSE reserveStake[1].lamports)
                           - minBalanceForRentExemption - 1
            reserves == {k \in 1 .. Len(accounts) : accounts[k].type = "reserve"}
        IN  IF balance > 0
            THEN /\ reserves = {Len(accounts)}
                 /\ accounts[Len(accounts)] =
                        [type |-> "reserve",
                         voteAddress |-> NullKey,
                         stakeAddress |-> ReserveStakeAddress,
                         lamports |-> balance]
            ELSE reserves = {}

\* a reserve candidate behind validator candidates that hold less than it
C10_Witness ==
    /\ Selected
    /\ Len(accounts) >= 3
    /\ accounts[Len(accounts)].type = "reserve"
    /\ accounts[Len(accounts)].lamports > accounts[1].lamports

\* position of a candidate in the order the candidates were built
BuiltAt(stakeAddress) ==
    LET built == BuildAccounts(stakePool, validatorList, minBalance)
    IN  CHOOSE k \in 1 .. Len(built) : built[k].stakeAddress = stakeAddress

\* two positions of the walk history that lie in the same tier
SameTierWalked(p, q) ==
    /\ p \in 1 .. Len(walked)
    /\ q \in 1 .. Len(walked)
    /\ p < q
    /\ CandidateAt(walked[p]).type = CandidateAt(walked[q]).type

\* C11: without a comparator the candidates of a tier are walked in
\* non-increasing order of lamports; with a comparator they are walked in the
\* order of that comparator alone: candidates it ranks equal keep the order
\* they were built in, whatever their lamports.
C11_WalkOrder ==
    \A p, q \in 1 .. Len(walked) :
        SameTierWalked(p, q) =>
            LET a == CandidateAt(walked[p])
                b == CandidateAt(walked[q])
            IN  IF compareFn = NoCompareFn
                THEN a.lamports >= b.lamports
                ELSE /\ callerCompare(compareFn, a, b) <= 0
                     /\ callerCompare(compareFn, a, b) = 0
                            => BuiltAt(walked[p]) < BuiltAt(walked[q])

\* a comparator that ranks all candidates equal, and a walk that visited a
\* smaller candidate before a larger one of the same tier
C11_Witness ==
    /\ compareFn = "keepOrder"
    /\ \E p, q \in 1 .. Len(walked) :
           /\ SameTierWalked(p, q)
           /\ CandidateAt(walked[p]).lamports < CandidateAt(walked[q]).lamports

\* the pool tokens of the allocations of a plan
RECURSIVE Allocated(_)
Allocated(plan) ==
    IF plan = <<>>
    THEN IntRat(0)
    ELSE RatAdd(Head(plan).poolAmount, Allocated(Tail(plan)))

InitChain ==
    /\ stakePool = [totalLamports |-> 0,
                    poolTokenSupply |-> 0,
                    stakeWithdrawalFee |-> [numerator |-> 0, denominator |-> 1],
                    preferredWithdrawValidatorVoteAddress |-> NullKey,
                    managerFeeAccount |-> ManagerFeeAccount]
    /\ minBalanceForRentExemption \in RentValues
    /\ validatorList \in
           [1 .. MaxValidators ->
               [status : {StatusActive},
                activeStakeLamports : 1 .. MaxAmount,
                transientStakeLamports : {0},
                transientSeedSuffixStart : {0},
                voteAccountAddress : VoteAddresses]]
    /\ \A i \in 1 .. MaxValidators : validatorList[i].voteAccountAddress = i
    /\ \E l \in 1 .. 2 :
           reserveStake = <<[lamports |-> minBalanceForRentExemption + l]>>
    /\ poolTokenAccount = "userTokenAccount"
    /\ amount \in 1 .. 2 * MaxAmount
    /\ compareFn = NoCompareFn
    /\ InitCall

\* lines 634, 639, 671: the call awaits the connection three times, before
\* the validator list is read and, with the candidates built and sorted,
\* before the reserve is read; while it waits a transaction lands that moves
\* lamports of a validator's active stake into the reserve
ChainUpdate ==
    /\ pc \in {"start", "reserve"}
    /\ \E i \in 1 .. Len(validatorList) :
           \E lamports \in 1 .. validatorList[i].activeStakeLamports :
               /\ validatorList' =
                      [validatorList EXCEPT
                           ![i].activeStakeLamports = @ - lamports]
               /\ reserveStake' =
                      <<[lamports |-> reserveStake[1].lamports + lamports]>>
    /\ UNCHANGED <<library, stakePool, minBalanceForRentExemption,
                   poolTokenAccount, amount, compareFn, skipFee, pc, accounts,
                   withdrawFrom, remainingAmount, typeIdx, idx, walked,
                   result>>

NextChain ==
    \/ PrepareAccounts
    \/ AppendReserve
    \/ WalkCandidate
    \/ NextType
    \/ Finish
    \/ ChainUpdate

SpecChain == InitChain /\ [][NextChain]_vars

\* the candidates of the accounts as they are now
CandidatesNow ==
    SortAccounts(BuildAccounts(stakePool, validatorList, minBalance))
        \o IF reserveStakeBalance > 0
           THEN <<[type |-> "reserve",
                   voteAddress |-> NullKey,
                   stakeAddress |-> ReserveStakeAddress,
                   lamports |-> reserveStakeBalance]>>
           ELSE <<>>

\* C21: every read of the validator list, the rent exemption and the reserve
\* is over before the candidates are built, so the candidates the walk
\* allocates from are those of one state of the accounts: the state in which
\* the last of the reads was made.
C21_OneSnapshot == Selected => accounts = CandidatesNow

\* ======================================================= exported helpers
\* prepareWithdrawAccounts is not under call
NoSelector ==
    /\ stakePool = [totalLamports |-> 0,
                    poolTokenSupply |-> 0,
                    stakeWithdrawalFee |-> [numerator |-> 0, denominator |-> 1],
                    preferredWithdrawValidatorVoteAddress |-> NullKey,
                    managerFeeAccount |-> ManagerFeeAccount]
    /\ validatorList = <<>>
    /\ reserveStake = <<>>
    /\ minBalanceForRentExemption = 0
    /\ poolTokenAccount = ManagerFeeAccount
    /\ amount = 0
    /\ compareFn = NoCompareFn
    /\ skipFee = FALSE
    /\ pc = "idle"
    /\ accounts = <<>>
    /\ withdrawFrom = <<>>
    /\ remainingAmount = IntRat(0)
    /\ typeIdx = 1
    /\ idx = 1
    /\ walked = <<>>
    /\ result = NoResult

\* ------------------------------------------------- pool-token arithmetic
\* the pools the conversions are applied to
MathPools ==
    [totalLamports : 0 .. MaxStake, poolTokenSupply : 0 .. MaxStake]

InitMath ==
    /\ NoSelector
    /\ \/ \E pool \in MathPools, stakeLamports \in 0 .. MaxAmount :
              invoked = [fn |-> "calcPoolTokensForDeposit",
                         args |-> [stakePool |-> pool,
                                   stakeLamports |-> stakeLamports]]
       \/ \E pool \in MathPools, poolTokens \in 0 .. MaxAmount :
              invoked = [fn |-> "calcLamportsWithdrawAmount",
                         args |-> [stakePool |-> pool,
                                   poolTokens |-> poolTokens]]
       \/ \E numerator \in 0 .. MaxStake * MaxAmount,
             denominator \in 0 .. MaxStake :
              invoked = [fn |-> "divideBnToNumber",
                         args |-> [numerator |-> numerator,
                                   denominator |-> denominator]]
    /\ data = <<>>
    /\ returned = <<>>

\* lines 722-727
CallCalcPoolTokensForDeposit ==
    /\ invoked.fn = "calcPoolTokensForDeposit"
    /\ returned = <<>>
    /\ returned' = <<calcPoolTokensForDeposit(invoked.args.stakePool,
                                              invoked.args.stakeLamports)>>
    /\ UNCHANGED <<selector, invoked, data>>

\* lines 731-738
CallCalcLamportsWithdrawAmount ==
    /\ invoked.fn = "calcLamportsWithdrawAmount"
    /\ returned = <<>>
    /\ returned' = <<calcLamportsWithdrawAmount(invoked.args.stakePool,
                                                invoked.args.poolTokens)>>
    /\ UNCHANGED <<selector, invoked, data>>

\* lines 739-747
CallDivideBnToNumber ==
    /\ invoked.fn = "divideBnToNumber"
    /\ returned = <<>>
    /\ returned' = <<divideBnToNumber(invoked.args.numerator,
                                      invoked.args.denominator)>>
    /\ UNCHANGED <<selector, invoked, data>>

NextMath ==
    \/ CallCalcPoolTokensForDeposit
    \/ CallCalcLamportsWithdrawAmount
    \/ CallDivideBnToNumber

SpecMath == InitMath /\ [][NextMath]_vars

\* ------------------------------------------------------ claims C12 - C14
Returned(fn) == invoked.fn = fn /\ returned # <<>>

\* C12: calcPoolTokensForDeposit returns the deposit unchanged when
\* totalLamports or poolTokenSupply is zero, and otherwise
\* floor(deposit * poolTokenSupply / totalLamports).
C12_PoolTokensForDeposit ==
    Returned("calcPoolTokensForDeposit") =>
        LET pool == invoked.args.stakePool
            deposit == invoked.args.stakeLamports
        IN  returned[1] =
                IF pool.totalLamports = 0 \/ pool.poolTokenSupply = 0
                THEN deposit
                ELSE (deposit * pool.poolTokenSupply) \div pool.totalLamports

\* a conversion whose quotient is not a whole number, and one on an empty pool
C12_Witness ==
    /\ Returned("calcPoolTokensForDeposit")
    /\ LET pool == invoked.args.stakePool
           deposit == invoked.args.stakeLamports
       IN  /\ pool.totalLamports > 0
           /\ pool.poolTokenSupply > 0
           /\ (deposit * pool.poolTokenSupply) % pool.totalLamports # 0
           /\ returned[1] > 0

\* C13: calcLamportsWithdrawAmount returns 0 when
\* poolTokens * totalLamports < poolTokenSupply and otherwise the exact
\* quotient poolTokens * totalLamports / poolTokenSupply; the result is never
\* negative, never strictly between 0 and 1, and 0 when poolTokenSupply is 0.
C13_LamportsWithdrawAmount ==
    Returned("calcLamportsWithdrawAmount") =>
        LET pool == invoked.args.stakePool
            product == invoked.args.poolTokens * pool.totalLamports
        IN  /\ product < pool.poolTokenSupply => returned[1] = IntRat(0)
            /\ (product >= pool.poolTokenSupply /\ pool.poolTokenSupply # 0)
                   => /\ returned[1][2] > 0
                      /\ returned[1][1] * pool.poolTokenSupply
                             = product * returned[1][2]
            /\ RatLe(IntRat(0), returned[1])
            /\ ~(RatLt(IntRat(0), returned[1]) /\ RatLt(returned[1], IntRat(1)))
            /\ pool.poolTokenSupply = 0 => returned[1] = IntRat(0)

\* a positive product below the supply is turned into 0
C13_Witness ==
    /\ Returned("calcLamportsWithdrawAmount")
    /\ LET pool == invoked.args.stakePool
           product == invoked.args.poolTokens * pool.totalLamports
       IN  0 < product /\ product < pool.poolTokenSupply
    /\ returned[1] = IntRat(0)

\* C14: divideBnToNumber returns 0 when the denominator is 0; for a positive
\* denominator and a non-negative numerator it returns
\* integerPart + (remainder / g) / (denominator / g) with
\* g = gcd(remainder, denominator), which equals numerator / denominator as an
\* exact rational, also when the remainder is 0.
C14_DivideExact ==
    Returned("divideBnToNumber") =>
        LET n == invoked.args.numerator
            d == invoked.args.denominator
        IN  IF d = 0
            THEN returned[1] = IntRat(0)
            ELSE LET integerPart == n \div d
                     remainder == n % d
                     g == Gcd(remainder, d)
                 IN  /\ returned[1] =
                            RatAdd(IntRat(integerPart),
                                   Rat(remainder \div g, d \div g))
                     /\ returned[1][2] > 0
                     /\ returned[1][1] * d = n * returned[1][2]

\* a division that leaves a remainder sharing a factor with the denominator
C14_Witness ==
    /\ Returned("divideBnToNumber")
    /\ invoked.args.denominator > 0
    /\ invoked.args.numerator % invoked.args.denominator # 0
    /\ Gcd(invoked.args.numerator % invoked.args.denominator,
           invoked.args.denominator) > 1
    /\ invoked.args.numerator > invoked.args.denominator

\* C29: for a pool with lamports and a token supply, the pool tokens minted
\* for a deposit of lamports are never worth more lamports than were
\* deposited.
C29_RoundTripCreatesNoValue ==
    (/\ Returned("calcPoolTokensForDeposit")
     /\ invoked.args.stakePool.totalLamports > 0
     /\ invoked.args.stakePool.poolTokenSupply > 0) =>
        RatLe(calcLamportsWithdrawAmount(invoked.args.stakePool, returned[1]),
              IntRat(invoked.args.stakeLamports))

\* a deposit that loses a fraction of a lamport on the way back, and in a
\* pool whose tokens are worth more than a lamport
C29_Witness ==
    /\ Returned("calcPoolTokensForDeposit")
    /\ invoked.args.stakePool.poolTokenSupply > 0
    /\ invoked.args.stakePool.totalLamports
           > invoked.args.stakePool.poolTokenSupply
    /\ returned[1] > 0
    /\ RatLt(calcLamportsWithdrawAmount(invoked.args.stakePool, returned[1]),
             IntRat(invoked.args.stakeLamports))

\* ================================================================ layouts
\* a Buffer is a sequence of bytes; offsets count from 0 as in the code
NoProperty == ""

\* b.slice(offset, offset + span); bytes past the end read as 0
Slice(b, offset, span) ==
    [i \in 1 .. span |-> IF offset + i <= Len(b) THEN b[offset + i] ELSE 0]

\* b with the given bytes written from offset on
Write(b, offset, bytes) ==
    [i \in 1 .. Len(b) |->
        IF offset < i /\ i <= offset + Len(bytes) THEN bytes[i - offset]
                                                  ELSE b[i]]

\* Buffer.alloc(length)
Alloc(length) == [i \in 1 .. length |-> 0]

\* little-endian bytes of an unsigned integer
RECURSIVE ToLE(_, _)
ToLE(value, span) ==
    IF span = 0 THEN <<>> ELSE <<value % 256>> \o ToLE(value \div 256, span - 1)

RECURSIVE FromLE(_)
FromLE(bytes) ==
    IF bytes = <<>> THEN 0
    ELSE IF \A i \in 1 .. Len(bytes) : bytes[i] = 0 THEN 0
    ELSE bytes[1] + 256 * FromLE(Tail(bytes))

\* ---- layout nodes
u8(property) == [kind |-> "uint", span |-> 1, property |-> property]
u32(property) == [kind |-> "uint", span |-> 4, property |-> property]
u64(property) == [kind |-> "uint", span |-> 8, property |-> property]
blob(length, property) ==
    [kind |-> "blob", span |-> length, property |-> property]
publicKey(property) ==
    [kind |-> "blob", span |-> 32, property |-> property]

\* span of a Structure: the sum of its fields' spans when all are fixed
RECURSIVE SumSpans(_)
SumSpans(fields) ==
    IF fields = <<>> THEN 0
    ELSE IF Head(fields).span < 0 \/ SumSpans(Tail(fields)) < 0
         THEN -1
         ELSE Head(fields).span + SumSpans(Tail(fields))

struct(fields, property) ==
    [kind |-> "struct", span |-> SumSpans(fields), property |-> property,
     fields |-> fields]
option(layout, property) ==
    [kind |-> "option", span |-> -1, property |-> property,
     layout |-> layout]
vec(layout, property) ==
    [kind |-> "vec", span |-> -1, property |-> property, layout |-> layout]
\* lines 1160-1164, 1187-1189
futureEpoch(layout, property) ==
    [kind |-> "futureEpoch", span |-> -1, property |-> property,
     layout |-> layout]

\* an absent value (null) and a present one
Absent == <<>>
Present(value) == <<value>>

\* what an encode hands back: the buffer, the bytes written, whether it threw
Encoded(b, n) == [b |-> b, n |-> n, threw |-> FALSE]
EncodeThrew(b) == [b |-> b, n |-> 0, threw |-> TRUE]

RECURSIVE getSpan(_, _, _)
RECURSIVE decode(_, _, _)
RECURSIVE encode(_, _, _, _)

\* ---- UInt and the 64-bit integer layout
UInt_decode(layout, b, offset) == FromLE(Slice(b, offset, layout.span))

UInt_encode(layout, src, b, offset) ==
    Encoded(Write(b, offset, ToLE(src, layout.span)), layout.span)

\* ---- Blob of a fixed length
Blob_decode(layout, b, offset) == Slice(b, offset, layout.span)

Blob_encode(layout, src, b, offset) ==
    IF Len(src) # layout.span \/ offset + layout.span > Len(b)
    THEN EncodeThrew(b)
    ELSE Encoded(Write(b, offset, src), layout.span)

\* ---- Option: one discriminator byte, then the inner layout when present
OptionLayout_encode(layout, src, b, offset) ==
    IF src = Absent
    THEN Encoded(Write(b, offset, <<0>>), 1)
    ELSE LET inner == encode(layout.layout, src[1],
                             Write(b, offset, <<1>>), offset + 1)
         IN  [inner EXCEPT !.n = inner.n + 1]

OptionLayout_decode(layout, b, offset) ==
    IF Slice(b, offset, 1)[1] = 0
    THEN Absent
    ELSE Present(decode(layout.layout, b, offset + 1))

OptionLayout_getSpan(layout, b, offset) ==
    IF Slice(b, offset, 1)[1] = 0
    THEN 1
    ELSE getSpan(layout.layout, b, offset + 1) + 1

\* ---- FutureEpochLayout
FutureEpochLayout_encode_NoLead(layout, src, b, offset) ==
    IF src = Absent
    THEN Encoded(Write(b, offset, <<0>>), 1)
    ELSE encode(layout.layout, src[1], Write(b, offset, <<1>>), offset + 1)

\* lines 1165-1171
FutureEpochLayout_encode(layout, src, b, offset) ==
    IF src = Absent
    THEN UInt_encode(u8(NoProperty), 0, b, offset)
    ELSE LET lead == UInt_encode(u8(NoProperty), 1, b, offset)
             inner == encode(layout.layout, src[1], lead.b, offset + 1)
         IN  [inner EXCEPT !.n = inner.n + 1]

\* lines 1172-1178
FutureEpochLayout_decode(layout, b, offset) ==
    LET discriminator == UInt_decode(u8(NoProperty), b, offset)
    IN  IF discriminator = 0
        THEN Absent
        ELSE Present(decode(layout.layout, b, offset + 1))

\* lines 1179-1185
FutureEpochLayout_getSpan(layout, b, offset) ==
    LET discriminator == UInt_decode(u8(NoProperty), b, offset)
    IN  IF discriminator = 0
        THEN 1
        ELSE getSpan(layout.layout, b, offset + 1) + 1

\* ---- Vec: a u32 count, then the elements back to back
RECURSIVE Vec_decodeElements(_, _, _, _)
Vec_decodeElements(layout, count, b, offset) ==
    IF count = 0 THEN <<>>
    ELSE <<decode(layout, b, offset)>>
             \o Vec_decodeElements(layout, count - 1, b,
                                   offset + getSpan(layout, b, offset))

Vec_decode(layout, b, offset) ==
    Vec_decodeElements(layout.layout, FromLE(Slice(b, offset, 4)), b,
                       offset + 4)

RECURSIVE Vec_elementsSpan(_, _, _, _)
Vec_elementsSpan(layout, count, b, offset) ==
    IF count = 0 THEN 0
    ELSE getSpan(layout, b, offset)
             + Vec_elementsSpan(layout, count - 1, b,
                                offset + getSpan(layout, b, offset))

Vec_getSpan(layout, b, offset) ==
    4 + Vec_elementsSpan(layout.layout, FromLE(Slice(b, offset, 4)), b,
                         offset + 4)

RECURSIVE Vec_encodeElements(_, _, _, _, _)
Vec_encodeElements(layout, src, b, offset, wrote) ==
    IF src = <<>> THEN Encoded(b, wrote)
    ELSE LET e == encode(layout, Head(src), b, offset)
         IN  IF e.threw THEN e
             ELSE Vec_encodeElements(layout, Tail(src), e.b, offset + e.n,
                                     wrote + e.n)

Vec_encode(layout, src, b, offset) ==
    Vec_encodeElements(layout.layout, src,
                       Write(b, offset, ToLE(Len(src), 4)), offset + 4, 4)

\* ---- Structure
\* a field's span once decoded: the declared span of the structure if it has
\* one, else the sum over its fields
RECURSIVE Structure_fieldsSpan(_, _, _)
Structure_fieldsSpan(fields, b, offset) ==
    IF fields = <<>> THEN 0
    ELSE LET span == getSpan(Head(fields), b, offset)
         IN  span + Structure_fieldsSpan(Tail(fields), b, offset + span)

Structure_getSpan(layout, b, offset) ==
    IF layout.span >= 0
    THEN layout.span
    ELSE Structure_fieldsSpan(layout.fields, b, offset)

\* dest[fd.property] = fd.decode(b, offset) for each field in turn: a later
\* field of the same property replaces the earlier value
RECURSIVE Structure_decodeFields(_, _, _)
Structure_decodeFields(fields, b, offset) ==
    IF fields = <<>> THEN <<>>
    ELSE LET fd == Head(fields)
             rest == Structure_decodeFields(Tail(fields), b,
                                            offset + getSpan(fd, b, offset))
         IN  IF fd.property = NoProperty
             THEN rest
             ELSE rest @@ (fd.property :> decode(fd, b, offset))

Structure_decode(layout, b, offset) ==
    Structure_decodeFields(layout.fields, b, offset)

\* a field whose property the source lacks is passed over and its bytes are
\* left as they are
RECURSIVE Structure_encodeFields(_, _, _, _, _, _, _)
Structure_encodeFields(fields, src, b, offset, firstOffset, lastOffset, lastWrote) ==
    IF fields = <<>>
    THEN Encoded(b, (lastOffset + lastWrote) - firstOffset)
    ELSE LET fd == Head(fields)
             supplied == fd.property # NoProperty /\ fd.property \in DOMAIN src
             e == IF supplied
                  THEN encode(fd, src[fd.property], b, offset)
                  ELSE Encoded(b, IF 0 < fd.span THEN fd.span ELSE 0)
             span == IF 0 > fd.span /\ supplied
                     THEN getSpan(fd, e.b, offset)
                     ELSE fd.span
         IN  IF e.threw THEN e
             ELSE Structure_encodeFields(Tail(fields), src, e.b,
                                         offset + span, firstOffset, offset,
                                         e.n)

Structure_encode(layout, src, b, offset) ==
    Structure_encodeFields(layout.fields, src, b, offset, offset, 0, 0)

\* ---- Layout: the method of the node's class
getSpan(layout, b, offset) ==
    CASE layout.kind = "struct" -> Structure_getSpan(layout, b, offset)
      [] layout.kind = "option" -> OptionLayout_getSpan(layout, b, offset)
      [] layout.kind = "futureEpoch" ->
             FutureEpochLayout_getSpan(layout, b, offset)
      [] layout.kind = "vec" -> Vec_getSpan(layout, b, offset)
      [] OTHER -> layout.span

decode(layout, b, offset) ==
    CASE layout.kind = "uint" -> UInt_decode(layout, b, offset)
      [] layout.kind = "blob" -> Blob_decode(layout, b, offset)
      [] layout.kind = "struct" -> Structure_decode(layout, b, offset)
      [] layout.kind = "option" -> OptionLayout_decode(layout, b, offset)
      [] layout.kind = "futureEpoch" ->
             FutureEpochLayout_decode(layout, b, offset)
      [] layout.kind = "vec" -> Vec_decode(layout, b, offset)

encode(layout, src, b, offset) ==
    CASE layout.kind = "uint" -> UInt_encode(layout, src, b, offset)
      [] layout.kind = "blob" -> Blob_encode(layout, src, b, offset)
      [] layout.kind = "struct" -> Structure_encode(layout, src, b, offset)
      [] layout.kind = "option" -> OptionLayout_encode(layout, src, b, offset)
      [] layout.kind = "futureEpoch" ->
             FutureEpochLayout_encode(layout, src, b, offset)
      [] layout.kind = "vec" -> Vec_encode(layout, src, b, offset)

\* a decode reads past the end of the buffer
decodeThrows(layout, b, offset) == offset + getSpan(layout, b, offset) > Len(b)

\* line 507
fee(property) == struct(<<u64("denominator"), u64("numerator")>>, property)

\* -------------------------------------------------------- FutureEpochLayout
\* fill of a buffer that nothing has been written to yet
Unwritten == 255

\* the layout of nextEpochFee, line 564
NextEpochFeeLayout == futureEpoch(fee(NoProperty), "nextEpochFee")

FeeSources ==
    [denominator : 0 .. MaxFee, numerator : 0 .. MaxFee]

\* either a value is encoded into a fresh buffer and then read back, or a
\* buffer is read whose leading byte is any byte
InitFutureEpoch ==
    /\ NoSelector
    /\ \/ \E src \in {Absent} \cup {Present(f) : f \in FeeSources},
             offset \in 0 .. 1 :
              /\ invoked = [fn |-> "FutureEpochLayout",
                            args |-> [encodes |-> TRUE, src |-> src,
                                      offset |-> offset]]
              /\ data = [i \in 1 .. offset + 18 |-> Unwritten]
       \/ \E lead \in {0, 1, 2, 255}, f \in FeeSources, offset \in 0 .. 1 :
              /\ invoked = [fn |-> "FutureEpochLayout",
                            args |-> [encodes |-> FALSE, src |-> Present(f),
                                      offset |-> offset]]
              /\ data = [i \in 1 .. offset |-> Unwritten] \o <<lead>>
                            \o ToLE(f.denominator, 8) \o ToLE(f.numerator, 8)
    /\ returned = <<>>

\* lines 1165-1171
FutureEpochEncode ==
    /\ invoked.fn = "FutureEpochLayout"
    /\ invoked.args.encodes
    /\ "encode" \notin DOMAIN returned
    /\ LET e == encode(NextEpochFeeLayout, invoked.args.src, data,
                       invoked.args.offset)
       IN  /\ data' = e.b
           /\ returned' = returned @@ ("encode" :> e.n)
    /\ UNCHANGED <<selector, invoked>>

\* lines 1179-1185
FutureEpochGetSpan ==
    /\ invoked.fn = "FutureEpochLayout"
    /\ invoked.args.encodes => "encode" \in DOMAIN returned
    /\ "getSpan" \notin DOMAIN returned
    /\ returned' = returned @@
           ("getSpan" :> getSpan(NextEpochFeeLayout, data, invoked.args.offset))
    /\ UNCHANGED <<selector, invoked, data>>

\* lines 1172-1178
FutureEpochDecode ==
    /\ invoked.fn = "FutureEpochLayout"
    /\ invoked.args.encodes => "encode" \in DOMAIN returned
    /\ "decode" \notin DOMAIN returned
    /\ returned' = returned @@
           ("decode" :> decode(NextEpochFeeLayout, data, invoked.args.offset))
    /\ UNCHANGED <<selector, invoked, data>>

NextFutureEpoch ==
    \/ FutureEpochEncode
    \/ FutureEpochGetSpan
    \/ FutureEpochDecode

SpecFutureEpoch == InitFutureEpoch /\ [][NextFutureEpoch]_vars

\* ------------------------------------------------------------ claim C16
Did(method) == invoked.fn = "FutureEpochLayout" /\ method \in DOMAIN returned

\* the bytes of a fee as the wire carries them
FeeBytes(f) == ToLE(f.denominator, 8) \o ToLE(f.numerator, 8)

\* every byte outside offset .. offset + n - 1 is as it was before the encode
OnlyWrote(offset, n) ==
    \A i \in 1 .. Len(data) :
        (i <= offset \/ i > offset + n) => data[i] = Unwritten

\* C16: encoding an absent value writes one byte 0 and returns 1; encoding a
\* present value writes byte 1 and the inner encoding and returns 1 plus the
\* inner span; decode returns null on a lead byte 0 and the inner value read
\* at offset + 1 on any other lead byte; getSpan of encoded bytes is the
\* number encode returned, and decode gives back the encoded value.
C16_FutureEpochRoundTrip ==
    LET src == invoked.args.src
        offset == invoked.args.offset
        lead == data[offset + 1]
    IN  /\ Did("encode") =>
               IF src = Absent
               THEN /\ returned.encode = 1
                    /\ lead = 0
                    /\ OnlyWrote(offset, 1)
               ELSE /\ returned.encode = 1 + 16
                    /\ lead = 1
                    /\ Slice(data, offset + 1, 16) = FeeBytes(src[1])
                    /\ OnlyWrote(offset, 17)
        /\ Did("decode") =>
               /\ lead = 0 => returned.decode = Absent
               /\ lead # 0 =>
                      returned.decode =
                          Present([denominator |->
                                       FromLE(Slice(data, offset + 1, 8)),
                                   numerator |->
                                       FromLE(Slice(data, offset + 9, 8))])
               /\ invoked.args.encodes => returned.decode = src
        /\ (Did("getSpan") /\ invoked.args.encodes) =>
               returned.getSpan = returned.encode

\* a fee that was encoded, measured and decoded again
C16_Witness ==
    /\ Did("encode") /\ Did("getSpan") /\ Did("decode")
    /\ invoked.args.src # Absent
    /\ invoked.args.src[1].numerator > 0
    /\ returned.decode = invoked.args.src

\* ---------------------------------------------------------- account layouts
\* line 506
lockup(property) ==
    struct(<<u64("unixTimestamp"), u64("epoch"), publicKey("custodian")>>,
           property)

\* line 582: StakePoolLayout.span = 627
StakePoolLayout_span == 627

\* lines 548-582
StakePoolLayout ==
    [struct(<<u8("accountType"),
              publicKey("manager"),
              publicKey("staker"),
              publicKey("stakeDepositAuthority"),
              u8("stakeWithdrawBumpSeed"),
              publicKey("validatorList"),
              publicKey("reserveStake"),
              publicKey("poolMint"),
              publicKey("managerFeeAccount"),
              publicKey("tokenProgramId"),
              u64("totalLamports"),
              u64("poolTokenSupply"),
              u64("lastUpdateEpoch"),
              lockup("lockup"),
              fee("epochFee"),
              futureEpoch(fee(NoProperty), "nextEpochFee"),
              option(publicKey(NoProperty),
                     "preferredDepositValidatorVoteAddress"),
              option(publicKey(NoProperty),
                     "preferredWithdrawValidatorVoteAddress"),
              fee("stakeDepositFee"),
              fee("stakeWithdrawalFee"),
              fee("nextStakeWithdrawalFee"),
              futureEpoch(fee(NoProperty), "nextStakeWithdrawalFee"),
              u8("stakeReferralFee"),
              option(publicKey(NoProperty), "solDepositAuthority"),
              fee("solDepositFee"),
              u8("solReferralFee"),
              option(publicKey(NoProperty), "solWithdrawAuthority"),
              fee("solWithdrawalFee"),
              futureEpoch(fee(NoProperty), "nextSolWithdrawalFee"),
              u64("lastEpochPoolTokenSupply"),
              u64("lastEpochTotalLamports")>>,
            NoProperty)
        EXCEPT !.span = StakePoolLayout_span]

\* src/src/layouts.ts, lines 113-144: the layout of the TypeScript source,
\* which is the field sequence of the pool account on the wire
StakePoolLayout_ts ==
    struct(<<u8("accountType"),
             publicKey("manager"),
             publicKey("staker"),
             publicKey("stakeDepositAuthority"),
             u8("stakeWithdrawBumpSeed"),
             publicKey("validatorList"),
             publicKey("reserveStake"),
             publicKey("poolMint"),
             publicKey("managerFeeAccount"),
             publicKey("tokenProgramId"),
             u64("totalLamports"),
             u64("poolTokenSupply"),
             u64("lastUpdateEpoch"),
             lockup("lockup"),
             fee("epochFee"),
             option(fee(NoProperty), "nextEpochFee"),
             option(publicKey(NoProperty),
                    "preferredDepositValidatorVoteAddress"),
             option(publicKey(NoProperty),
                    "preferredWithdrawValidatorVoteAddress"),
             fee("stakeDepositFee"),
             fee("stakeWithdrawalFee"),
             option(fee(NoProperty), "nextStakeWithdrawalFee"),
             u8("stakeReferralFee"),
             option(publicKey(NoProperty), "solDepositAuthority"),
             fee("solDepositFee"),
             u8("solReferralFee"),
             option(publicKey(NoProperty), "solWithdrawAuthority"),
             fee("solWithdrawalFee"),
             option(fee(NoProperty), "nextSolWithdrawalFee"),
             u64("lastEpochPoolTokenSupply"),
             u64("lastEpochTotalLamports")>>,
           NoProperty)

\* lines 589-608
ValidatorStakeInfoLayout ==
    struct(<<u64("activeStakeLamports"),
             u64("transientStakeLamports"),
             u64("lastUpdateEpoch"),
             u64("transientSeedSuffixStart"),
             u64("transientSeedSuffixEnd"),
             u8("status"),
             publicKey("voteAccountAddress")>>,
           NoProperty)

\* line 615: ValidatorListLayout.span = 9
ValidatorListLayout_span == 9

\* lines 609-615
ValidatorListLayout ==
    [struct(<<u8("accountType"),
              u32("maxValidators"),
              vec(ValidatorStakeInfoLayout, "validators")>>,
            NoProperty)
        EXCEPT !.span = ValidatorListLayout_span]

\* lines 510-512
AccountType_Uninitialized == 0
AccountType_StakePool == 1
AccountType_ValidatorList == 2

\* line 463
DEFAULT_MAX_VALIDATORS == 2950

\* ------------------------------------------------------- accounts on chain
\* a public key whose 32 bytes are all k
Key(k) == [i \in 1 .. 32 |-> k]

Fee(numerator, denominator) ==
    [denominator |-> denominator, numerator |-> numerator]

\* a pool account as the on-chain program holds it
PoolAccount(nextEpochFee, preferredWithdraw, nextStakeWithdrawalFee, stakeReferralFee, authority, nextSolWithdrawalFee) ==
    [accountType |-> AccountType_StakePool,
     manager |-> Key(1),
     staker |-> Key(2),
     stakeDepositAuthority |-> Key(3),
     stakeWithdrawBumpSeed |-> 254,
     validatorList |-> Key(4),
     reserveStake |-> Key(5),
     poolMint |-> Key(6),
     managerFeeAccount |-> Key(7),
     tokenProgramId |-> Key(8),
     totalLamports |-> 2,
     poolTokenSupply |-> 1,
     lastUpdateEpoch |-> 3,
     lockup |-> [unixTimestamp |-> 0, epoch |-> 0, custodian |-> Key(0)],
     epochFee |-> Fee(3, 100),
     nextEpochFee |-> nextEpochFee,
     preferredDepositValidatorVoteAddress |-> Absent,
     preferredWithdrawValidatorVoteAddress |-> preferredWithdraw,
     stakeDepositFee |-> Fee(1, 100),
     stakeWithdrawalFee |-> Fee(9, 80),
     nextStakeWithdrawalFee |-> nextStakeWithdrawalFee,
     stakeReferralFee |-> stakeReferralFee,
     solDepositAuthority |-> authority,
     solDepositFee |-> Fee(2, 100),
     solReferralFee |-> 50,
     solWithdrawAuthority |-> authority,
     solWithdrawalFee |-> Fee(3, 20),
     nextSolWithdrawalFee |-> nextSolWithdrawalFee,
     lastEpochPoolTokenSupply |-> 1,
     lastEpochTotalLamports |-> 2]

PoolAccounts ==
    {PoolAccount(nextEpochFee, preferredWithdraw, nextStakeWithdrawalFee,
                 stakeReferralFee, Absent, nextSolWithdrawalFee) :
         nextEpochFee \in {Absent, Present(Fee(4, 100))},
         preferredWithdraw \in {Absent, Present(Key(9))},
         nextStakeWithdrawalFee \in {Absent, Present(Fee(7, 60))},
         stakeReferralFee \in 1 .. MaxFee,
         nextSolWithdrawalFee \in {Absent, Present(Fee(9, 40))}}

\* the pool account with every optional field present
FullPoolAccount ==
    [PoolAccount(Present(Fee(4, 100)), Present(Key(9)), Present(Fee(7, 60)),
                 1, Present(Key(10)), Present(Fee(9, 40)))
        EXCEPT !.preferredDepositValidatorVoteAddress = Present(Key(11))]

ValidatorStakeInfo(vote) ==
    [activeStakeLamports |-> vote,
     transientStakeLamports |-> 0,
     lastUpdateEpoch |-> 3,
     transientSeedSuffixStart |-> 0,
     transientSeedSuffixEnd |-> 0,
     status |-> StatusActive,
     voteAccountAddress |-> Key(vote)]

\* a validator list of n entries
ValidatorListAccount(maxValidators, n) ==
    [accountType |-> AccountType_ValidatorList,
     maxValidators |-> maxValidators,
     validators |-> [i \in 1 .. n |-> ValidatorStakeInfo(i)]]

\* the bytes of an account of the given space that holds the value
AccountData(layout, value, space) ==
    encode(layout, value, Alloc(space), 0).b

\* space of a validator list account, lines 2733-2734
validatorListSpace(maxValidators) ==
    ValidatorListLayout.span + ValidatorStakeInfoLayout.span * maxValidators

PoolBuffers ==
    {AccountData(StakePoolLayout_ts, pool, StakePoolLayout.span) :
         pool \in PoolAccounts}

ValidatorListBuffers ==
    {AccountData(ValidatorListLayout, ValidatorListAccount(MaxValidators, n),
                 validatorListSpace(MaxValidators)) : n \in 0 .. MaxValidators}

\* accounts that were created and never initialized
UninitializedBuffers ==
    {Alloc(StakePoolLayout.span), Alloc(validatorListSpace(MaxValidators))}

\* a few of the buffers above, for the accounts of one program
ProgramBuffers ==
    {AccountData(StakePoolLayout_ts, FullPoolAccount, StakePoolLayout.span),
     AccountData(ValidatorListLayout,
                 ValidatorListAccount(MaxValidators, MaxValidators),
                 validatorListSpace(MaxValidators)),
     Alloc(StakePoolLayout.span),
     SubSeq(AccountData(StakePoolLayout_ts, FullPoolAccount,
                        StakePoolLayout.span), 1, 100)}

InitAccounts ==
    /\ NoSelector
    /\ returned = <<>>
    /\ \/ /\ invoked = [fn |-> "getStakePoolAccount", args |-> <<>>]
          /\ data \in {Absent} \cup
                 {Present(b) : b \in PoolBuffers \cup ValidatorListBuffers
                                         \cup UninitializedBuffers}
       \/ /\ invoked = [fn |-> "getValidatorListAccount", args |-> <<>>]
          /\ data \in {Absent} \cup
                 {Present(b) : b \in ValidatorListBuffers
                                         \cup UninitializedBuffers}
       \/ /\ invoked = [fn |-> "getStakePoolAccounts", args |-> <<>>]
          /\ data \in UNION {[1 .. n -> ProgramBuffers] : n \in 0 .. 2}
       \/ /\ \E maxValidators \in 0 .. MaxValidators :
                 invoked = [fn |-> "initialize",
                            args |-> [maxValidators |->
                                          Present(maxValidators)]]
          /\ data = <<>>

\* what a reader hands back
Threw(message) == [kind |-> "error", error |-> message, data |-> <<>>]
Account(decoded) == [kind |-> "account", error |-> "", data |-> decoded]

\* lines 2082-2096
GetStakePoolAccount ==
    /\ invoked.fn = "getStakePoolAccount"
    /\ returned = <<>>
    /\ returned' =
           IF data = Absent
           THEN <<Threw("Invalid stake pool account")>>
           ELSE IF decodeThrows(StakePoolLayout, data[1], 0)
                THEN <<Threw("RangeError")>>
                ELSE <<Account(decode(StakePoolLayout, data[1], 0))>>
    /\ UNCHANGED <<selector, invoked, data>>

\* lines 617-631
GetValidatorListAccount ==
    /\ invoked.fn = "getValidatorListAccount"
    /\ returned = <<>>
    /\ returned' =
           IF data = Absent
           THEN <<Threw("Invalid validator list account")>>
           ELSE IF decodeThrows(ValidatorListLayout.fields[3], data[1], 5)
                THEN <<Threw("RangeError")>>
                ELSE <<Account(decode(ValidatorListLayout, data[1], 0))>>
    /\ UNCHANGED <<selector, invoked, data>>

\* lines 2120-2153: the decodedData of one account of the response
decodedData(b) ==
    IF b[1] = 1
    THEN IF decodeThrows(StakePoolLayout, b, 0)
         THEN Absent
         ELSE Present(decode(StakePoolLayout, b, 0))
    ELSE IF b[1] = 2
         THEN IF decodeThrows(ValidatorListLayout.fields[3], b, 5)
              THEN Absent
              ELSE Present(decode(ValidatorListLayout, b, 0))
         ELSE Absent

\* lines 2118-2154
GetStakePoolAccounts ==
    /\ invoked.fn = "getStakePoolAccounts"
    /\ returned = <<>>
    /\ returned' = <<[i \in 1 .. Len(data) |-> decodedData(data[i])]>>
    /\ UNCHANGED <<selector, invoked, data>>

\* lines 2721, 2733-2734: the space of the two accounts initialize creates
Initialize ==
    /\ invoked.fn = "initialize"
    /\ returned = <<>>
    /\ LET maxValidators ==
               IF invoked.args.maxValidators = Absent
               THEN DEFAULT_MAX_VALIDATORS
               ELSE invoked.args.maxValidators[1]
       IN  returned' =
               <<[poolSpace |-> StakePoolLayout.span,
                  validatorListSpace |-> validatorListSpace(maxValidators)]>>
    /\ UNCHANGED <<selector, invoked, data>>

NextAccounts ==
    \/ GetStakePoolAccount
    \/ GetValidatorListAccount
    \/ GetStakePoolAccounts
    \/ Initialize

SpecAccounts == InitAccounts /\ [][NextAccounts]_vars

\* ------------------------------------------------- claims C15, C17, C18
\* an account was found and read
Read(fn) == invoked.fn = fn /\ returned # <<>> /\ data # Absent

\* C15: the pool account is decoded with the field sequence of the wire
\* format, each field once and in order: a pool account written in the wire
\* format is read back with every field, from stakeReferralFee on as well,
\* holding the value the wire gives it.
C15_WireFieldSequence ==
    (Read("getStakePoolAccount") /\ data[1][1] = AccountType_StakePool) =>
        /\ returned[1].kind = "account"
        /\ returned[1].data = decode(StakePoolLayout_ts, data[1], 0)

\* the encoded length of a value
EncodedLength(layout, value) ==
    encode(layout, value, Alloc(StakePoolLayout_span), 0).n

\* C17: the space initialize allocates equals the encoded lengths of the
\* wire format: StakePoolLayout.span is the length of a pool account with
\* every optional field present, and ValidatorListLayout.span +
\* ValidatorStakeInfoLayout.span * maxValidators is the length of a validator
\* list of maxValidators entries.
C17_DeclaredSpans ==
    Returned("initialize") =>
        LET maxValidators == invoked.args.maxValidators[1]
        IN  /\ returned[1].poolSpace
                   = EncodedLength(StakePoolLayout_ts, FullPoolAccount)
            /\ returned[1].validatorListSpace
                   = EncodedLength(ValidatorListLayout,
                                   ValidatorListAccount(maxValidators,
                                                        maxValidators))

\* C18: a reader decodes a buffer with the pool layout only when its leading
\* byte is 1 and with the validator-list layout only when it is 2; a buffer
\* with another leading byte is reported invalid and never handed back
\* decoded, by getStakePoolAccounts and by the single-account readers.
C18_DispatchOnLeadingByte ==
    /\ Read("getStakePoolAccount") =>
           IF data[1][1] = AccountType_StakePool
           THEN returned[1] = Account(decode(StakePoolLayout, data[1], 0))
           ELSE returned[1].kind = "error"
    /\ Read("getValidatorListAccount") =>
           IF data[1][1] = AccountType_ValidatorList
           THEN returned[1] = Account(decode(ValidatorListLayout, data[1], 0))
           ELSE returned[1].kind = "error"
    /\ Returned("getStakePoolAccounts") =>
           \A i \in 1 .. Len(data) :
               CASE data[i][1] = AccountType_StakePool ->
                        returned[1][i] \in
                            {Absent,
                             Present(decode(StakePoolLayout, data[i], 0))}
                 [] data[i][1] = AccountType_ValidatorList ->
                        returned[1][i] \in
                            {Absent,
                             Present(decode(ValidatorListLayout, data[i], 0))}
                 [] OTHER -> returned[1][i] = Absent

\* =========================================================== instructions
\* lines 448-450
METADATA_MAX_NAME_LENGTH == 32
METADATA_MAX_SYMBOL_LENGTH == 10
METADATA_MAX_URI_LENGTH == 200

\* line 1200
MOVE_STAKE_LAYOUT ==
    struct(<<u8("instruction"), u64("lamports"), u64("transientStakeSeed")>>,
           NoProperty)

\* lines 1231-1435: the layouts of the instructions that carry amounts or
\* seeds
STAKE_POOL_INSTRUCTION_LAYOUTS ==
    [DecreaseValidatorStake |-> [index |-> 3, layout |-> MOVE_STAKE_LAYOUT],
     IncreaseValidatorStake |-> [index |-> 4, layout |-> MOVE_STAKE_LAYOUT],
     WithdrawStake |->
         [index |-> 10,
          layout |-> struct(<<u8("instruction"), u64("poolTokens")>>,
                            NoProperty)],
     DepositSol |->
         [index |-> 14,
          layout |-> struct(<<u8("instruction"), u64("lamports")>>,
                            NoProperty)],
     WithdrawSol |->
         [index |-> 16,
          layout |-> struct(<<u8("instruction"), u64("poolTokens")>>,
                            NoProperty)],
     IncreaseAdditionalValidatorStake |->
         [index |-> 19,
          layout |-> struct(<<u8("instruction"), u64("lamports"),
                              u64("transientStakeSeed"),
                              u64("ephemeralStakeSeed")>>, NoProperty)],
     DecreaseAdditionalValidatorStake |->
         [index |-> 20,
          layout |-> struct(<<u8("instruction"), u64("lamports"),
                              u64("transientStakeSeed"),
                              u64("ephemeralStakeSeed")>>, NoProperty)],
     DecreaseValidatorStakeWithReserve |->
         [index |-> 21, layout |-> MOVE_STAKE_LAYOUT],
     Redelegate |->
         [index |-> 22,
          layout |-> struct(<<u8("instruction"), u64("lamports"),
                              u64("sourceTransientStakeSeed"),
                              u64("ephemeralStakeSeed"),
                              u64("destinationTransientStakeSeed")>>,
                            NoProperty)],
     WithdrawStakeWithSlippage |->
         [index |-> 24,
          layout |-> struct(<<u8("instruction"), u64("poolTokensIn"),
                              u64("minimumLamportsOut")>>, NoProperty)],
     DepositSolWithSlippage |->
         [index |-> 25,
          layout |-> struct(<<u8("instruction"), u64("lamportsIn"),
                              u64("minimumPoolTokensOut")>>, NoProperty)],
     WithdrawSolWithSlippage |->
         [index |-> 26,
          layout |-> struct(<<u8("instruction"), u64("poolTokensIn"),
                              u64("minimumLamportsOut")>>, NoProperty)]]

\* what a builder hands back
TransactionInstruction(bytes) ==
    [kind |-> "instruction", error |-> "", data |-> bytes]

\* lines 768-774: the fields are laid over {instruction: type.index}, encoded
\* into a zeroed buffer of the layout's span, and the buffer is cut at the
\* length encode reports
encodeData(type, fields) ==
    LET allocLength == type.layout.span
        buffer == Alloc(IF allocLength < 0 THEN 1024 ELSE allocLength)
        layoutFields == fields @@ ("instruction" :> type.index)
        encoded == encode(type.layout, layoutFields, buffer, 0)
    IN  IF encoded.threw
        THEN Threw("TypeError")
        ELSE TransactionInstruction(SubSeq(encoded.b, 1, encoded.n))

\* ---- a string is held as the number of its UTF-16 code units and the
\* bytes of its UTF-8 form
LatinSmallA == <<97>>
LatinSmallEAcute == <<195, 169>>

\* str.length
length(str) == str.units

\* Buffer.from(str)
Buffer_from(str) == str.bytes

\* a string of n letters, and a string with a character in front of it
Letters(n) == [units |-> n, bytes |-> [i \in 1 .. n |-> LatinSmallA[1]]]
Prefixed(character, str) ==
    [units |-> 1 + str.units, bytes |-> character \o str.bytes]

\* lines 1204-1226
tokenMetadataLayout(instruction, nameLength, symbolLength, uriLength) ==
    IF nameLength > METADATA_MAX_NAME_LENGTH
    THEN [threw |-> TRUE,
          error |-> "maximum token name length is 32 characters"]
    ELSE IF symbolLength > METADATA_MAX_SYMBOL_LENGTH
    THEN [threw |-> TRUE,
          error |-> "maximum token symbol length is 10 characters"]
    ELSE IF uriLength > METADATA_MAX_URI_LENGTH
    THEN [threw |-> TRUE,
          error |-> "maximum token uri length is 200 characters"]
    ELSE [threw |-> FALSE, error |-> "", index |-> instruction,
          layout |-> struct(<<u8("instruction"),
                              u32("nameLen"), blob(nameLength, "name"),
                              u32("symbolLen"), blob(symbolLength, "symbol"),
                              u32("uriLen"), blob(uriLength, "uri")>>,
                            NoProperty)]

\* lines 1897-1905 and 1925-1933
tokenMetadataData(instruction, params) ==
    LET type == tokenMetadataLayout(instruction, length(params.name),
                                    length(params.symbol),
                                    length(params.uri))
    IN  IF type.threw
        THEN Threw(type.error)
        ELSE encodeData(type,
                        [nameLen |-> length(params.name),
                         name |-> Buffer_from(params.name),
                         symbolLen |-> length(params.symbol),
                         symbol |-> Buffer_from(params.symbol),
                         uriLen |-> length(params.uri),
                         uri |-> Buffer_from(params.uri)])

\* ---- the calls: a builder and its parameters
Call(fn, args) == [fn |-> fn, args |-> args]

\* the amounts and seeds a caller may pass; the last is wider than one byte
Amounts == (0 .. MaxAmount) \cup {256 * 256 + MaxAmount}
Seeds == 0 .. 1
Optional(values) == {Absent} \cup {Present(v) : v \in values}

InitInstruction ==
    /\ NoSelector
    /\ data = <<>>
    /\ returned = <<>>
    /\ \/ \E fn \in {"increaseValidatorStake", "decreaseValidatorStake",
                     "decreaseValidatorStakeWithReserve"} :
              \E lamports \in Amounts, transientStakeSeed \in Seeds :
                  invoked =
                      Call(fn, [lamports |-> lamports,
                                transientStakeSeed |-> transientStakeSeed])
       \/ \E fn \in {"increaseAdditionalValidatorStake",
                     "decreaseAdditionalValidatorStake"} :
              \E lamports \in Amounts, transientStakeSeed \in Seeds,
                 ephemeralStakeSeed \in Seeds :
                  invoked =
                      Call(fn, [lamports |-> lamports,
                                transientStakeSeed |-> transientStakeSeed,
                                ephemeralStakeSeed |-> ephemeralStakeSeed])
       \/ \E lamports \in Amounts, minimumPoolTokensOut \in Optional(Amounts) :
              invoked =
                  Call("depositSol",
                       [lamports |-> lamports,
                        minimumPoolTokensOut |-> minimumPoolTokensOut])
       \/ \E fn \in {"withdrawStake", "withdrawSol"} :
              \E poolTokens \in Amounts,
                 minimumLamportsOut \in Optional(Amounts) :
                  invoked =
                      Call(fn, [poolTokens |-> poolTokens,
                                minimumLamportsOut |-> minimumLamportsOut])
       \/ \E lamports \in Amounts, sourceTransientStakeSeed \in Seeds,
             ephemeralStakeSeed \in Seeds,
             destinationTransientStakeSeed \in Seeds :
              invoked =
                  Call("redelegate",
                       [lamports |-> lamports,
                        sourceTransientStakeSeed |-> sourceTransientStakeSeed,
                        ephemeralStakeSeed |-> ephemeralStakeSeed,
                        destinationTransientStakeSeed |->
                            destinationTransientStakeSeed])
       \/ \E fn \in {"createTokenMetadata", "updateTokenMetadata"} :
              \E name \in {Letters(n) :
                               n \in {0, 4, METADATA_MAX_NAME_LENGTH,
                                      METADATA_MAX_NAME_LENGTH + 1}}
                          \cup {Prefixed(LatinSmallEAcute, Letters(3))},
                 symbol \in {Letters(n) :
                                 n \in {4, METADATA_MAX_SYMBOL_LENGTH,
                                        METADATA_MAX_SYMBOL_LENGTH + 1}},
                 uri \in {Letters(n) :
                              n \in {19, METADATA_MAX_URI_LENGTH,
                                     METADATA_MAX_URI_LENGTH + 1}} :
                  invoked = Call(fn, [name |-> name, symbol |-> symbol,
                                      uri |-> uri])

\* lines 1591-1618
IncreaseValidatorStake ==
    /\ invoked.fn = "increaseValidatorStake"
    /\ returned = <<>>
    /\ returned' =
           <<encodeData(STAKE_POOL_INSTRUCTION_LAYOUTS.IncreaseValidatorStake,
              [lamports |-> invoked.args.lamports,
              transientStakeSeed |->
              invoked.args.transientStakeSeed])>>
    /\ UNCHANGED <<selector, invoked, data>>

\* lines 1623-1651
IncreaseAdditionalValidatorStake ==
    /\ invoked.fn = "increaseAdditionalValidatorStake"
    /\ returned = <<>>
    /\ returned' =
           <<encodeData(
              STAKE_POOL_INSTRUCTION_LAYOUTS.IncreaseAdditionalValidatorStake,
              [lamports |-> invoked.args.lamports,
              transientStakeSeed |-> invoked.args.transientStakeSeed,
              ephemeralStakeSeed |-> invoked.args.ephemeralStakeSeed])>>
    /\ UNCHANGED <<selector, invoked, data>>

\* lines 1656-1679
DecreaseValidatorStake ==
    /\ invoked.fn = "decreaseValidatorStake"
    /\ returned = <<>>
    /\ returned' =
           <<encodeData(STAKE_POOL_INSTRUCTION_LAYOUTS.DecreaseValidatorStake,
              [lamports |-> invoked.args.lamports,
              transientStakeSeed |->
              invoked.args.transientStakeSeed])>>
    /\ UNCHANGED <<selector, invoked, data>>

\* lines 1684-1708
DecreaseValidatorStakeWithReserve ==
    /\ invoked.fn = "decreaseValidatorStakeWithReserve"
    /\ returned = <<>>
    /\ returned' =
           <<encodeData(
              STAKE_POOL_INSTRUCTION_LAYOUTS.DecreaseValidatorStakeWithReserve,
              [lamports |-> invoked.args.lamports,
              transientStakeSeed |-> invoked.args.transientStakeSeed])>>
    /\ UNCHANGED <<selector, invoked, data>>

\* lines 1713-1738
DecreaseAdditionalValidatorStake ==
    /\ invoked.fn = "decreaseAdditionalValidatorStake"
    /\ returned = <<>>
    /\ returned' =
           <<encodeData(
              STAKE_POOL_INSTRUCTION_LAYOUTS.DecreaseAdditionalValidatorStake,
              [lamports |-> invoked.args.lamports,
              transientStakeSeed |-> invoked.args.transientStakeSeed,
              ephemeralStakeSeed |-> invoked.args.ephemeralStakeSeed])>>
    /\ UNCHANGED <<selector, invoked, data>>

\* lines 1771-1805
depositSolData(params) ==
    IF params.minimumPoolTokensOut # Absent
    THEN encodeData(STAKE_POOL_INSTRUCTION_LAYOUTS.DepositSolWithSlippage,
                    [lamports |-> params.lamports,
                     minimumPoolTokensOut |-> params.minimumPoolTokensOut[1]])
    ELSE encodeData(STAKE_POOL_INSTRUCTION_LAYOUTS.DepositSol,
                    [lamports |-> params.lamports])

DepositSol ==
    /\ invoked.fn = "depositSol"
    /\ returned = <<>>
    /\ returned' = <<depositSolData(invoked.args)>>
    /\ UNCHANGED <<selector, invoked, data>>

\* lines 1809-1839
withdrawStakeData(params) ==
    IF params.minimumLamportsOut # Absent
    THEN encodeData(STAKE_POOL_INSTRUCTION_LAYOUTS.WithdrawStakeWithSlippage,
                    [poolTokens |-> params.poolTokens,
                     minimumLamportsOut |-> params.minimumLamportsOut[1]])
    ELSE encodeData(STAKE_POOL_INSTRUCTION_LAYOUTS.WithdrawStake,
                    [poolTokens |-> params.poolTokens])

WithdrawStake ==
    /\ invoked.fn = "withdrawStake"
    /\ returned = <<>>
    /\ returned' = <<withdrawStakeData(invoked.args)>>
    /\ UNCHANGED <<selector, invoked, data>>

\* lines 1843-1879
withdrawSolData(params) ==
    IF params.minimumLamportsOut # Absent
    THEN encodeData(STAKE_POOL_INSTRUCTION_LAYOUTS.WithdrawSolWithSlippage,
                    [poolTokens |-> params.poolTokens,
                     minimumPoolTokensOut |-> params.minimumLamportsOut[1]])
    ELSE encodeData(STAKE_POOL_INSTRUCTION_LAYOUTS.WithdrawSol,
                    [poolTokens |-> params.poolTokens])

WithdrawSol ==
    /\ invoked.fn = "withdrawSol"
    /\ returned = <<>>
    /\ returned' = <<withdrawSolData(invoked.args)>>
    /\ UNCHANGED <<selector, invoked, data>>

\* lines 1944-1975
Redelegate ==
    /\ invoked.fn = "redelegate"
    /\ returned = <<>>
    /\ returned' =
           <<encodeData(STAKE_POOL_INSTRUCTION_LAYOUTS.Redelegate,
              [lamports |-> invoked.args.lamports,
              sourceTransientStakeSeed |->
              invoked.args.sourceTransientStakeSeed,
              ephemeralStakeSeed |-> invoked.args.ephemeralStakeSeed,
              destinationTransientStakeSeed |->
              invoked.args.destinationTransientStakeSeed])>>
    /\ UNCHANGED <<selector, invoked, data>>

\* lines 1884-1911
CreateTokenMetadata ==
    /\ invoked.fn = "createTokenMetadata"
    /\ returned = <<>>
    /\ returned' = <<tokenMetadataData(17, invoked.args)>>
    /\ UNCHANGED <<selector, invoked, data>>

\* lines 1916-1939
UpdateTokenMetadata ==
    /\ invoked.fn = "updateTokenMetadata"
    /\ returned = <<>>
    /\ returned' = <<tokenMetadataData(18, invoked.args)>>
    /\ UNCHANGED <<selector, invoked, data>>

NextInstruction ==
    \/ IncreaseValidatorStake
    \/ IncreaseAdditionalValidatorStake
    \/ DecreaseValidatorStake
    \/ DecreaseValidatorStakeWithReserve
    \/ DecreaseAdditionalValidatorStake
    \/ DepositSol
    \/ WithdrawStake
    \/ WithdrawSol
    \/ Redelegate
    \/ CreateTokenMetadata
    \/ UpdateTokenMetadata

SpecInstruction == InitInstruction /\ [][NextInstruction]_vars

\* ---- claims about the instruction builders
Issued(fn) ==
    invoked.fn = fn /\ returned # <<>> /\ returned[1].kind = "instruction"

\* the layout an instruction of the call is to be read with: the slippage
\* layout when a minimum output is given
LayoutUsed ==
    CASE invoked.fn = "increaseValidatorStake" ->
             STAKE_POOL_INSTRUCTION_LAYOUTS.IncreaseValidatorStake
      [] invoked.fn = "increaseAdditionalValidatorStake" ->
             STAKE_POOL_INSTRUCTION_LAYOUTS.IncreaseAdditionalValidatorStake
      [] invoked.fn = "decreaseValidatorStake" ->
             STAKE_POOL_INSTRUCTION_LAYOUTS.DecreaseValidatorStake
      [] invoked.fn = "decreaseValidatorStakeWithReserve" ->
             STAKE_POOL_INSTRUCTION_LAYOUTS.DecreaseValidatorStakeWithReserve
      [] invoked.fn = "decreaseAdditionalValidatorStake" ->
             STAKE_POOL_INSTRUCTION_LAYOUTS.DecreaseAdditionalValidatorStake
      [] invoked.fn = "redelegate" ->
             STAKE_POOL_INSTRUCTION_LAYOUTS.Redelegate
      [] invoked.fn = "depositSol" ->
             IF invoked.args.minimumPoolTokensOut # Absent
             THEN STAKE_POOL_INSTRUCTION_LAYOUTS.DepositSolWithSlippage
             ELSE STAKE_POOL_INSTRUCTION_LAYOUTS.DepositSol
      [] invoked.fn = "withdrawStake" ->
             IF invoked.args.minimumLamportsOut # Absent
             THEN STAKE_POOL_INSTRUCTION_LAYOUTS.WithdrawStakeWithSlippage
             ELSE STAKE_POOL_INSTRUCTION_LAYOUTS.WithdrawStake
      [] invoked.fn = "withdrawSol" ->
             IF invoked.args.minimumLamportsOut # Absent
             THEN STAKE_POOL_INSTRUCTION_LAYOUTS.WithdrawSolWithSlippage
             ELSE STAKE_POOL_INSTRUCTION_LAYOUTS.WithdrawSol

\* the amounts and seeds of the call, under the layout's names for them
Supplied ==
    CASE invoked.fn = "depositSol"
             /\ invoked.args.minimumPoolTokensOut # Absent ->
             [lamportsIn |-> invoked.args.lamports,
              minimumPoolTokensOut |-> invoked.args.minimumPoolTokensOut[1]]
      [] invoked.fn = "depositSol"
             /\ invoked.args.minimumPoolTokensOut = Absent ->
             [lamports |-> invoked.args.lamports]
      [] invoked.fn \in {"withdrawStake", "withdrawSol"}
             /\ invoked.args.minimumLamportsOut # Absent ->
             [poolTokensIn |-> invoked.args.poolTokens,
              minimumLamportsOut |-> invoked.args.minimumLamportsOut[1]]
      [] invoked.fn \in {"withdrawStake", "withdrawSol"}
             /\ invoked.args.minimumLamportsOut = Absent ->
             [poolTokens |-> invoked.args.poolTokens]
      [] OTHER -> invoked.args

AmountBuilders ==
    {"increaseValidatorStake", "increaseAdditionalValidatorStake",
     "decreaseValidatorStake", "decreaseValidatorStakeWithReserve",
     "decreaseAdditionalValidatorStake", "depositSol", "withdrawStake",
     "withdrawSol", "redelegate"}

\* C19: the first byte of a builder's instruction data is the index of the
\* layout used, and decoding the data with that layout gives back every
\* amount and seed the caller supplied, the slippage variants' input amount
\* and minimum output included.
C19_BuildersCarryAmounts ==
    \A fn \in AmountBuilders :
        Issued(fn) =>
            /\ returned[1].data[1] = LayoutUsed.index
            /\ LET decoded == decode(LayoutUsed.layout, returned[1].data, 0)
               IN  \A property \in DOMAIN Supplied :
                       decoded[property] = Supplied[property]

\* C20: a token-metadata builder given a name over 32, a symbol over 10 or a
\* URI over 200 characters throws before anything is encoded; otherwise it
\* yields the instruction index, then for each of name, symbol and URI a u32
\* length and that many bytes, and decoding gives the three strings back.
C20_TokenMetadata ==
    \A fn \in {"createTokenMetadata", "updateTokenMetadata"} :
        invoked.fn = fn /\ returned # <<>> =>
            LET name == Buffer_from(invoked.args.name)
                symbol == Buffer_from(invoked.args.symbol)
                uri == Buffer_from(invoked.args.uri)
                index == IF fn = "createTokenMetadata" THEN 17 ELSE 18
            IN  IF \/ length(invoked.args.name) > METADATA_MAX_NAME_LENGTH
                   \/ length(invoked.args.symbol) > METADATA_MAX_SYMBOL_LENGTH
                   \/ length(invoked.args.uri) > METADATA_MAX_URI_LENGTH
                THEN returned[1].kind = "error"
                ELSE /\ returned[1].kind = "instruction"
                     /\ returned[1].data =
                            <<index>> \o ToLE(Len(name), 4) \o name
                            \o ToLE(Len(symbol), 4) \o symbol
                            \o ToLE(Len(uri), 4) \o uri
                     /\ LET type == tokenMetadataLayout(
                                        index, length(invoked.args.name),
                                        length(invoked.args.symbol),
                                        length(invoked.args.uri))
                            decoded == decode(type.layout, returned[1].data,
                                              0)
                        IN  /\ decoded.name = name
                            /\ decoded.symbol = symbol
                            /\ decoded.uri = uri

\* ------------------------------------------------- the client functions
\* largest number of pool tokens asked from withdrawSol and withdrawStake
MaxRequest == 8
\* longest validator list the client functions read
MaxListLength == 11
\* longest sequence of increaseValidatorStake / decreaseValidatorStake calls
MaxCalls == 2

\* Maximum number of validators to update during UpdateValidatorListBalance
MAX_VALIDATORS_TO_UPDATE == 5

solToLamports_Zero(sol) == IntRat(0)

\* solToLamports of a number of SOL: Number(amount * LAMPORTS_PER_SOL)
solToLamports(sol) ==
    LET g == Gcd(LAMPORTS_PER_SOL, sol[2])
    IN  Rat(sol[1] * (LAMPORTS_PER_SOL \div g), sol[2] \div g)

\* a TransactionInstruction by the instruction it encodes, its account keys
\* and the fields of its data
Instruction(name, keys, params) ==
    [instruction |-> name, keys |-> keys, data |-> params]

\* what a client function resolves to
Resolved(value) == [kind |-> "ok", value |-> value]

StakePoolAddress == <<"stakePool">>
ValidatorListAddress == <<"validatorList">>
WithdrawAuthority == <<"withdrawAuthority">>
PoolMint == <<"poolMint">>
\* splToken.getAssociatedTokenAddressSync(poolMint, owner)
AssociatedTokenAddress == "associatedTokenAccount"
\* Keypair.generate(): the k-th keypair a call generates
Keypair(k) == <<"keypair", k>>

\* lines 2204-2244
depositSol(fromBalance, lamports, destinationTokenAccount, referrerTokenAccount) ==
    IF fromBalance < lamports
    THEN Threw("Not enough SOL to deposit into pool")
    ELSE LET userSolTransfer == Keypair(1)
             destination ==
                 IF destinationTokenAccount = Absent
                 THEN AssociatedTokenAddress
                 ELSE destinationTokenAccount[1]
             referral ==
                 IF referrerTokenAccount = Absent
                 THEN destination
                 ELSE referrerTokenAccount[1]
         IN  Resolved(
                 [instructions |->
                      <<Instruction("Transfer", <<<<"from">>, userSolTransfer>>,
                                    [lamports |-> lamports])>>
                      \o (IF destinationTokenAccount = Absent
                          THEN <<Instruction("CreateAssociatedTokenAccountIdempotent",
                                             <<<<"from">>, <<destination>>,
                                               <<"from">>, PoolMint>>,
                                             <<>>)>>
                          ELSE <<>>)
                      \o <<Instruction("DepositSol",
                                       <<StakePoolAddress, WithdrawAuthority,
                                         ReserveStakeAddress, userSolTransfer,
                                         <<destination>>,
                                         <<stakePool.managerFeeAccount>>,
                                         <<referral>>, PoolMint>>,
                                       [lamports |-> lamports])>>,
                  signers |-> <<userSolTransfer>>])

\* lines 2396-2438; expected is the solWithdrawAuthority of the pool account
withdrawSol(tokenAmount, requested, solWithdrawAuthority, expected) ==
    LET poolAmount == solToLamports(requested)
        userTransferAuthority == Keypair(1)
    IN  IF RatLt(IntRat(tokenAmount), poolAmount)
        THEN Threw("Not enough token balance to withdraw")
        ELSE IF solWithdrawAuthority # NullKey /\ expected = NullKey
        THEN Threw("SOL withdraw authority specified in arguments but stake pool has none")
        ELSE IF solWithdrawAuthority # NullKey /\ solWithdrawAuthority # expected
        THEN Threw("Invalid deposit withdraw specified")
        ELSE Resolved(
                 [instructions |->
                      <<Instruction("Approve",
                                    <<<<AssociatedTokenAddress>>,
                                      userTransferAuthority, <<"tokenOwner">>>>,
                                    [amount |-> poolAmount]),
                        Instruction("WithdrawSol",
                                    <<StakePoolAddress, WithdrawAuthority,
                                      userTransferAuthority,
                                      <<AssociatedTokenAddress>>,
                                      ReserveStakeAddress, <<"solReceiver">>,
                                      <<stakePool.managerFeeAccount>>,
                                      PoolMint>>
                                      \o IF solWithdrawAuthority # NullKey
                                         THEN <<<<"authority",
                                                  solWithdrawAuthority>>>>
                                         ELSE <<>>,
                                    [poolTokens |-> poolAmount])>>,
                  signers |-> <<userTransferAuthority>>])

\* const maxWithdrawAccounts = 5
maxWithdrawAccounts == 5

\* lines 2340-2376: the instructions and signers the loop adds from the
\* allocations not yet visited; i allocations were visited, fresh tells
\* whether each gets a new stake account
RECURSIVE withdrawLoop(_, _, _, _)
withdrawLoop(withdrawAccounts, i, fresh, receiver) ==
    IF withdrawAccounts = <<>> \/ i > maxWithdrawAccounts
    THEN [instructions |-> <<>>, signers |-> <<>>, totalRentFreeBalances |-> 0]
    ELSE LET withdrawAccount == Head(withdrawAccounts)
             stakeKeypair == Keypair(i + 2)
             stakeToReceive == IF fresh THEN stakeKeypair ELSE receiver
             rest == withdrawLoop(Tail(withdrawAccounts), i + 1, fresh,
                                  receiver)
         IN  [instructions |->
                  (IF fresh
                   THEN <<Instruction("CreateAccount",
                                      <<<<"tokenOwner">>, stakeKeypair>>,
                                      [lamports |->
                                           minBalanceForRentExemption])>>
                   ELSE <<>>)
                  \o <<Instruction("WithdrawStake",
                                   <<StakePoolAddress, ValidatorListAddress,
                                     WithdrawAuthority,
                                     withdrawAccount.stakeAddress,
                                     stakeToReceive, <<"tokenOwner">>,
                                     Keypair(1), <<poolTokenAccount>>,
                                     <<stakePool.managerFeeAccount>>,
                                     PoolMint>>,
                                   [poolTokens |-> withdrawAccount.poolAmount])>>
                  \o rest.instructions,
              signers |-> (IF fresh THEN <<stakeKeypair>> ELSE <<>>)
                              \o rest.signers,
              totalRentFreeBalances |->
                  (IF fresh THEN minBalanceForRentExemption ELSE 0)
                      + rest.totalRentFreeBalances]

\* lines 2293 and 2314
availableInStakeAccount(stakeAccount) ==
    calcLamportsWithdrawAmount(
        stakePool,
        stakeAccount[1].lamports - MINIMUM_ACTIVE_STAKE
            - minBalanceForRentExemption)

InPool(voteAccount) ==
    \E k \in 1 .. Len(validatorList) :
        validatorList[k].voteAccountAddress = voteAccount

\* lines 2263-2329: the allocations to withdraw, or the error thrown.
\* stakeReceiverAccount is <<>> without a stakeReceiver, else what
\* getParsedAccountInfo gives for it; stakeAccount is what getAccountInfo
\* gives for the stake account of a validator, <<>> when it is missing
withdrawAccountsOf(poolAmount, useReserve, voteAccountAddress, stakeReceiverAccount, stakeAccount) ==
    LET single(stakeAddress, voteAddress) ==
            [kind |-> "plan",
             plan |-> <<[stakeAddress |-> stakeAddress,
                         voteAddress |-> voteAddress,
                         poolAmount |-> poolAmount]>>]
        enough(vote) ==
            IF RatLt(availableInStakeAccount(stakeAccount), poolAmount)
            THEN Threw("Not enough lamports available for withdrawal")
            ELSE single(findStakeProgramAddress(vote), vote)
    IN  IF stakeReceiverAccount # Absent
           /\ stakeReceiverAccount[1].type = "missing"
        THEN Threw("Invalid stake account")
        ELSE IF useReserve
        THEN single(ReserveStakeAddress, NullKey)
        ELSE IF stakeReceiverAccount # Absent
                /\ stakeReceiverAccount[1].type = "delegated"
        THEN LET voteAccount == stakeReceiverAccount[1].voter
             IN  IF voteAccount = NullKey
                 THEN Threw("Invalid stake receiver delegation")
                 \* voteAccountAddress !== voteAccount compares two objects:
                 \* the voter is a PublicKey made while the account is parsed
                 ELSE IF voteAccountAddress # NullKey
                 THEN Threw("Provided withdrawal vote account does not match delegation on stake receiver account")
                 ELSE IF ~InPool(voteAccount)
                 THEN Threw("Provided stake account is delegated to a vote account which does not exist in the stake pool")
                 ELSE IF stakeAccount = Absent
                 THEN Threw("Preferred withdraw validator's stake account is invalid")
                 ELSE enough(voteAccount)
        ELSE IF voteAccountAddress # NullKey
        THEN IF stakeAccount = Absent
             THEN Threw("Invalid Stake Account")
             ELSE enough(voteAccountAddress)
        ELSE IF Len(validatorList) = 0
        THEN Threw("No accounts found")
        ELSE LET selected ==
                     SelectorResult(
                         stakePool, CandidatesNow, poolAmount[1],
                         poolTokenAccount = stakePool.managerFeeAccount,
                         minBalance)
             IN  IF selected.kind = "error"
                 THEN Threw(selected.error)
                 ELSE [kind |-> "plan", plan |-> selected.plan]

\* lines 2248-2392; the instructions of lines 2377-2385 are concatenated
\* into an array nothing keeps
withdrawStake(tokenAmount, requested, useReserve, voteAccountAddress, stakeReceiverAccount, stakeAccount) ==
    LET poolAmount == solToLamports(requested)
        withdrawAccounts ==
            withdrawAccountsOf(poolAmount, useReserve, voteAccountAddress,
                               stakeReceiverAccount, stakeAccount)
        fresh == \/ stakeReceiverAccount = Absent
                 \/ stakeReceiverAccount[1].type = "delegated"
        loop == withdrawLoop(withdrawAccounts.plan, 0, fresh,
                             <<"stakeReceiver">>)
    IN  IF RatLt(IntRat(tokenAmount), poolAmount)
        THEN Threw("Not enough token balance to withdraw")
        ELSE IF withdrawAccounts.kind = "error"
        THEN withdrawAccounts
        ELSE Resolved(
                 [instructions |->
                      <<Instruction("Approve",
                                    <<<<poolTokenAccount>>, Keypair(1),
                                      <<"tokenOwner">>>>,
                                    [amount |-> poolAmount])>>
                      \o loop.instructions,
                  signers |-> <<Keypair(1)>> \o loop.signers,
                  stakeReceiver |-> stakeReceiverAccount # Absent,
                  totalRentFreeBalances |-> loop.totalRentFreeBalances])

\* (totalLamports, poolTokenSupply) of the pools the client functions read
ClientRates == {<<0, 0>>, <<2, 1>>, <<1, 2>>}

\* the validators the client functions read: Active, one lamport of active
\* stake each, no transient stake
ClientValidator(vote) ==
    [status |-> StatusActive,
     voteAccountAddress |-> vote,
     activeStakeLamports |-> 1,
     transientStakeLamports |-> 0,
     transientSeedSuffixStart |-> vote % 3]

\* a vote account no validator of the list has
NotInPool == MaxListLength + 100

\* the amounts in SOL of 0 .. MaxRequest pool tokens
Requests == {Rat(n, LAMPORTS_PER_SOL) : n \in 0 .. MaxRequest}

\* what getParsedAccountInfo gives for a stakeReceiver
StakeReceiverAccounts ==
    {[type |-> "missing", voter |-> NullKey],
     [type |-> "initialized", voter |-> NullKey],
     [type |-> "delegated", voter |-> 1],
     [type |-> "delegated", voter |-> NotInPool]}

\* what getAccountInfo gives for the stake account of a validator
StakeAccounts ==
    {[lamports |-> MINIMUM_ACTIVE_STAKE + minBalanceForRentExemption + w] :
        w \in {0, 1, 3}}

InitClient ==
    /\ \E rate \in ClientRates :
           stakePool = [totalLamports |-> rate[1],
                        poolTokenSupply |-> rate[2],
                        stakeWithdrawalFee |->
                            [numerator |-> 0, denominator |-> 1],
                        preferredWithdrawValidatorVoteAddress |-> NullKey,
                        managerFeeAccount |-> ManagerFeeAccount]
    /\ minBalanceForRentExemption \in RentValues
    /\ \E n \in 0 .. MaxListLength :
           validatorList = [v \in 1 .. n |-> ClientValidator(v)]
    /\ reserveStake = <<[lamports |-> minBalanceForRentExemption + 1]>>
    /\ poolTokenAccount \in TokenAccounts
    /\ amount = 0
    /\ compareFn = NoCompareFn
    /\ skipFee = FALSE
    /\ pc = "idle"
    /\ accounts = <<>>
    /\ withdrawFrom = <<>>
    /\ remainingAmount = IntRat(0)
    /\ typeIdx = 1
    /\ idx = 1
    /\ walked = <<>>
    /\ result = NoResult
    /\ invoked = NoCall
    /\ data = <<>>
    /\ returned = <<>>

CallDepositSol ==
    /\ returned = <<>>
    /\ \E fromBalance \in 0 .. 2, lamports \in 0 .. 2,
          destinationTokenAccount \in Optional({"userTokenAccount"}),
          referrerTokenAccount \in Optional({"referrerTokenAccount"}) :
           /\ invoked' = Call("depositSol",
                              [fromBalance |-> fromBalance,
                               lamports |-> lamports])
           /\ returned' = <<depositSol(fromBalance, lamports,
                                       destinationTokenAccount,
                                       referrerTokenAccount)>>
    /\ UNCHANGED <<selector, data>>

CallWithdrawSol ==
    /\ returned = <<>>
    /\ \E tokenAmount \in {2, MaxRequest}, requested \in Requests,
          solWithdrawAuthority \in {NullKey, 1, 2}, expected \in {NullKey, 1} :
           /\ invoked' = Call("withdrawSol",
                              [tokenAmount |-> tokenAmount,
                               amount |-> requested])
           /\ returned' = <<withdrawSol(tokenAmount, requested,
                                        solWithdrawAuthority, expected)>>
    /\ UNCHANGED <<selector, data>>

CallWithdrawStake ==
    /\ returned = <<>>
    /\ \E tokenAmount \in {2, MaxRequest}, requested \in Requests,
          useReserve \in BOOLEAN, voteAccountAddress \in {NullKey, 1},
          stakeReceiverAccount \in Optional(StakeReceiverAccounts),
          stakeAccount \in Optional(StakeAccounts) :
           /\ invoked' = Call("withdrawStake",
                              [tokenAmount |-> tokenAmount,
                               amount |-> requested,
                               useReserve |-> useReserve,
                               voteAccountAddress |-> voteAccountAddress,
                               stakeReceiverAccount |-> stakeReceiverAccount,
                               stakeAccount |-> stakeAccount])
           /\ returned' = <<withdrawStake(tokenAmount, requested, useReserve,
                                          voteAccountAddress,
                                          stakeReceiverAccount, stakeAccount)>>
    /\ UNCHANGED <<selector, data>>

Staker == <<"staker">>
SysvarClock == <<"sysvarClock">>
SysvarRent == <<"sysvarRent">>
SysvarStakeHistory == <<"sysvarStakeHistory">>
StakeConfig == <<"stakeConfig">>
SystemProgram == <<"systemProgram">>
StakeProgram == <<"stakeProgram">>
TokenProgram == <<"tokenProgram">>
findEphemeralStakeProgramAddress(seed) == <<"ephemeral", seed>>

\* validators.find((v) => v.voteAccountAddress.toBase58() === vote.toBase58())
RECURSIVE find(_, _)
find(validators, vote) ==
    IF validators = <<>>
    THEN Absent
    ELSE IF Head(validators).voteAccountAddress = vote
         THEN Present(Head(validators))
         ELSE find(Tail(validators), vote)

\* lines 2451-2453 and 2505-2507
transientStakeSeed(validatorInfo, ephemeralStakeSeed) ==
    IF ephemeralStakeSeed = Absent
    THEN validatorInfo.transientSeedSuffixStart + 1
    ELSE validatorInfo.transientSeedSuffixStart

\* lines 2442-2491; the instruction of lines 2459-2472 is built and dropped
increaseValidatorStake(validatorVote, lamports, ephemeralStakeSeed) ==
    LET validatorInfo == find(validatorList, validatorVote)
    IN  IF validatorInfo = Absent
        THEN Threw("Vote account not found in validator list")
        ELSE LET seed == transientStakeSeed(validatorInfo[1],
                                            ephemeralStakeSeed)
                 transientStake ==
                     findTransientStakeProgramAddress(
                         validatorInfo[1].voteAccountAddress, seed)
                 validatorStake ==
                     findStakeProgramAddress(
                         validatorInfo[1].voteAccountAddress)
             IN  Resolved(
                     [instructions |->
                          IF ephemeralStakeSeed # Absent
                          THEN <<>>
                          ELSE <<Instruction(
                                     "IncreaseValidatorStake",
                                     <<StakePoolAddress, Staker,
                                       WithdrawAuthority,
                                       ValidatorListAddress,
                                       ReserveStakeAddress, transientStake,
                                       validatorStake,
                                       <<"vote", validatorVote>>, SysvarClock,
                                       SysvarRent, SysvarStakeHistory,
                                       StakeConfig, SystemProgram,
                                       StakeProgram>>,
                                     [lamports |-> lamports,
                                      transientStakeSeed |-> seed])>>])

\* lines 2495-2540
decreaseValidatorStake(validatorVote, lamports, ephemeralStakeSeed) ==
    LET validatorInfo == find(validatorList, validatorVote)
    IN  IF validatorInfo = Absent
        THEN Threw("Vote account not found in validator list")
        ELSE LET seed == transientStakeSeed(validatorInfo[1],
                                            ephemeralStakeSeed)
                 transientStake ==
                     findTransientStakeProgramAddress(
                         validatorInfo[1].voteAccountAddress, seed)
                 validatorStake ==
                     findStakeProgramAddress(
                         validatorInfo[1].voteAccountAddress)
             IN  Resolved(
                     [instructions |->
                          IF ephemeralStakeSeed # Absent
                          THEN <<Instruction(
                                     "DecreaseAdditionalValidatorStake",
                                     <<StakePoolAddress, Staker,
                                       WithdrawAuthority,
                                       ValidatorListAddress, validatorStake,
                                       findEphemeralStakeProgramAddress(
                                           ephemeralStakeSeed[1]),
                                       transientStake, SysvarClock,
                                       SysvarStakeHistory, SystemProgram,
                                       StakeProgram>>,
                                     [lamports |-> lamports,
                                      transientStakeSeed |-> seed,
                                      ephemeralStakeSeed |->
                                          ephemeralStakeSeed[1]])>>
                          ELSE <<Instruction(
                                     "DecreaseValidatorStake",
                                     <<StakePoolAddress, Staker,
                                       WithdrawAuthority,
                                       ValidatorListAddress, validatorStake,
                                       transientStake, SysvarClock,
                                       SysvarRent, SystemProgram,
                                       StakeProgram>>,
                                     [lamports |-> lamports,
                                      transientStakeSeed |-> seed])>>])

arrayChunk_Overlapping(array, size) ==
    [c \in 1 .. (Len(array) + size - 1) \div size |->
        SubSeq(array, IF c = 1 THEN 1 ELSE (c - 1) * size,
               IF c * size < Len(array) THEN c * size ELSE Len(array))]

\* lines 1191-1197: the c-th chunk is array.slice((c - 1) * size, c * size)
arrayChunk(array, size) ==
    [c \in 1 .. (Len(array) + size - 1) \div size |->
        SubSeq(array, (c - 1) * size + 1,
               IF c * size < Len(array) THEN c * size ELSE Len(array))]

\* lines 2555-2560
RECURSIVE validatorAndTransientStakePairs(_)
validatorAndTransientStakePairs(validatorChunk) ==
    IF validatorChunk = <<>>
    THEN <<>>
    ELSE LET validator == Head(validatorChunk)
         IN  <<findStakeProgramAddress(validator.voteAccountAddress),
               findTransientStakeProgramAddress(
                   validator.voteAccountAddress,
                   validator.transientSeedSuffixStart)>>
                 \o validatorAndTransientStakePairs(Tail(validatorChunk))

\* lines 2544-2587; the c-th pass of the loop finds startIndex at
\* (c - 1) * MAX_VALIDATORS_TO_UPDATE
updateStakePool(noMerge) ==
    LET validatorChunks == arrayChunk(validatorList, MAX_VALIDATORS_TO_UPDATE)
    IN  Resolved(
            [updateListInstructions |->
                 [c \in 1 .. Len(validatorChunks) |->
                     Instruction(
                         "UpdateValidatorListBalance",
                         <<StakePoolAddress, WithdrawAuthority,
                           ValidatorListAddress, ReserveStakeAddress,
                           SysvarClock, SysvarStakeHistory, StakeProgram>>
                             \o validatorAndTransientStakePairs(
                                    validatorChunks[c]),
                         [startIndex |-> (c - 1) * MAX_VALIDATORS_TO_UPDATE,
                          noMerge |-> IF noMerge THEN 1 ELSE 0])],
             finalInstructions |->
                 <<Instruction("UpdateStakePoolBalance",
                               <<StakePoolAddress, WithdrawAuthority,
                                 ValidatorListAddress, ReserveStakeAddress,
                                 <<stakePool.managerFeeAccount>>, PoolMint,
                                 TokenProgram>>,
                               <<>>),
                   Instruction("CleanupRemovedValidatorEntries",
                               <<StakePoolAddress, ValidatorListAddress>>,
                               <<>>)>>])

\* a sequence of calls is followed for increaseValidatorStake and
\* decreaseValidatorStake, whose seeds are compared from call to call
CallIncreaseValidatorStake ==
    /\ Len(returned) < MaxCalls
    /\ invoked.fn \in {"none", "increaseValidatorStake",
                       "decreaseValidatorStake"}
    /\ \E validatorVote \in {1, 2, NotInPool},
          ephemeralStakeSeed \in Optional({0}) :
           /\ invoked' = Call("increaseValidatorStake",
                              [validatorVote |-> validatorVote,
                               lamports |-> 1,
                               ephemeralStakeSeed |-> ephemeralStakeSeed])
           /\ returned' =
                  Append(returned,
                         increaseValidatorStake(validatorVote, 1,
                                                ephemeralStakeSeed))
    /\ UNCHANGED <<selector, data>>

CallDecreaseValidatorStake ==
    /\ Len(returned) < MaxCalls
    /\ invoked.fn \in {"none", "increaseValidatorStake",
                       "decreaseValidatorStake"}
    /\ \E validatorVote \in {1, 2, NotInPool},
          ephemeralStakeSeed \in Optional({0}) :
           /\ invoked' = Call("decreaseValidatorStake",
                              [validatorVote |-> validatorVote,
                               lamports |-> 1,
                               ephemeralStakeSeed |-> ephemeralStakeSeed])
           /\ returned' =
                  Append(returned,
                         decreaseValidatorStake(validatorVote, 1,
                                                ephemeralStakeSeed))
    /\ UNCHANGED <<selector, data>>

CallUpdateStakePool ==
    /\ returned = <<>>
    /\ \E noMerge \in BOOLEAN :
           /\ invoked' = Call("updateStakePool", [noMerge |-> noMerge])
           /\ returned' = <<updateStakePool(noMerge)>>
    /\ UNCHANGED <<selector, data>>

NextClient ==
    \/ CallDepositSol
    \/ CallWithdrawSol
    \/ CallWithdrawStake
    \/ CallIncreaseValidatorStake
    \/ CallDecreaseValidatorStake
    \/ CallUpdateStakePool

SpecClient == InitClient /\ [][NextClient]_vars

\* ------------------------------------------ claims on the client functions
\* the call made last and what it gave
Made(fn) == invoked.fn = fn /\ returned # <<>>
Outcome == returned[Len(returned)]
Succeeded(fn) == Made(fn) /\ Outcome.kind = "ok"

\* the pool tokens an amount of SOL stands for
PoolTokensOf(sol) ==
    CHOOSE n \in 0 .. MaxRequest : Rat(n, LAMPORTS_PER_SOL) = sol

\* C22: depositSol asked for more lamports than the funding account holds
\* throws the not-enough-SOL error, and withdrawSol and withdrawStake asked
\* for more pool tokens than the token account holds throw the
\* not-enough-token-balance error; a call that throws returns no
\* instructions and no signers.
C22_RejectedBeforeBuilding ==
    /\ (Made("depositSol")
        /\ invoked.args.lamports > invoked.args.fromBalance) =>
           Outcome = Threw("Not enough SOL to deposit into pool")
    /\ \A fn \in {"withdrawSol", "withdrawStake"} :
           (Made(fn)
            /\ PoolTokensOf(invoked.args.amount) > invoked.args.tokenAmount) =>
               Outcome = Threw("Not enough token balance to withdraw")

C22_Witness ==
    /\ Made("withdrawStake")
    /\ invoked.args.tokenAmount = 2
    /\ PoolTokensOf(invoked.args.amount) = 3
    /\ invoked.args.useReserve
    /\ Outcome.kind = "error"

\* the WithdrawStake instructions of a result, in order
WithdrawStakeInstructions ==
    SelectSeq(Outcome.value.instructions,
              LAMBDA ins : ins.instruction = "WithdrawStake")

RECURSIVE PoolTokensCarried(_)
PoolTokensCarried(instructions) ==
    IF instructions = <<>>
    THEN IntRat(0)
    ELSE RatAdd(Head(instructions).data.poolTokens,
                PoolTokensCarried(Tail(instructions)))

\* C24: the pool tokens of the WithdrawStake instructions withdrawStake
\* returns sum to the amount its Approve instruction approves, which is the
\* requested amount, whatever the length of the plan.
C24_NoAllocationDropped ==
    Succeeded("withdrawStake") =>
        /\ Outcome.value.instructions[1].instruction = "Approve"
        /\ Outcome.value.instructions[1].data.amount
               = IntRat(PoolTokensOf(invoked.args.amount))
        /\ PoolTokensCarried(WithdrawStakeInstructions)
               = Outcome.value.instructions[1].data.amount

\* C25: withdrawStake returns at most 5 WithdrawStake instructions, whatever
\* the length of the plan.
C25_AtMostFiveAccounts ==
    Succeeded("withdrawStake") => Len(WithdrawStakeInstructions) <= 5

\* the stake receiver of the call is a delegated stake account
ReceiverDelegated ==
    /\ invoked.args.stakeReceiverAccount # Absent
    /\ invoked.args.stakeReceiverAccount[1].type = "delegated"

\* the vote account a call of withdrawStake names
NamedVote ==
    IF ReceiverDelegated
    THEN invoked.args.stakeReceiverAccount[1].voter
    ELSE invoked.args.voteAccountAddress

\* withdrawStake was called with a vote account or with a delegated stake
\* receiver whose voter is in the pool, by a holder of enough pool tokens,
\* and the validator's stake account exists
NamesValidator ==
    /\ Made("withdrawStake")
    /\ ~invoked.args.useReserve
    /\ PoolTokensOf(invoked.args.amount) <= invoked.args.tokenAmount
    /\ invoked.args.stakeAccount # Absent
    /\ \/ /\ ReceiverDelegated
          /\ InPool(NamedVote)
          /\ invoked.args.voteAccountAddress = NullKey
       \/ /\ ~ReceiverDelegated
          /\ invoked.args.voteAccountAddress # NullKey
          /\ \/ invoked.args.stakeReceiverAccount = Absent
             \/ invoked.args.stakeReceiverAccount[1].type = "initialized"

\* the pool-token value of the withdrawable lamports of the stake account
WithdrawableTokens ==
    calcPoolTokensForDeposit(
        stakePool,
        invoked.args.stakeAccount[1].lamports - MINIMUM_ACTIVE_STAKE
            - minBalanceForRentExemption)

\* C27: withdrawStake given a vote account, or a delegated stake receiver
\* whose voter is in the pool, succeeds exactly when the pool tokens asked
\* do not exceed the pool-token value (calcPoolTokensForDeposit) of the stake
\* account's balance less MINIMUM_ACTIVE_STAKE and the rent exemption, and
\* throws the not-enough-lamports error otherwise; when it succeeds it
\* returns one WithdrawStake instruction, for the whole amount, from the
\* validator's stake account.
C27_VoteAccountWithdrawal ==
    NamesValidator =>
        IF PoolTokensOf(invoked.args.amount) <= WithdrawableTokens
        THEN /\ Outcome.kind = "ok"
             /\ Len(WithdrawStakeInstructions) = 1
             /\ WithdrawStakeInstructions[1].data.poolTokens
                    = IntRat(PoolTokensOf(invoked.args.amount))
             /\ WithdrawStakeInstructions[1].keys[4]
                    = findStakeProgramAddress(NamedVote)
        ELSE Outcome = Threw("Not enough lamports available for withdrawal")

\* the argument ephemeralStakeSeed was given
WithEphemeralSeed == invoked.args.ephemeralStakeSeed # Absent

\* C28: a call of increaseValidatorStake that succeeds returns exactly one
\* instruction, IncreaseAdditionalValidatorStake with an ephemeral seed and
\* IncreaseValidatorStake without, as decreaseValidatorStake returns exactly
\* one of DecreaseAdditionalValidatorStake and DecreaseValidatorStake.
C28_OneInstruction ==
    /\ Succeeded("increaseValidatorStake") =>
           /\ Len(Outcome.value.instructions) = 1
           /\ Outcome.value.instructions[1].instruction
                  = IF WithEphemeralSeed
                    THEN "IncreaseAdditionalValidatorStake"
                    ELSE "IncreaseValidatorStake"
    /\ Succeeded("decreaseValidatorStake") =>
           /\ Len(Outcome.value.instructions) = 1
           /\ Outcome.value.instructions[1].instruction
                  = IF WithEphemeralSeed
                    THEN "DecreaseAdditionalValidatorStake"
                    ELSE "DecreaseValidatorStake"

\* the transient stake accounts the instructions of a result name
TransientAccounts(outcome) ==
    IF outcome.kind # "ok"
    THEN {}
    ELSE UNION {{outcome.value.instructions[n].keys[k] :
                    k \in {j \in DOMAIN outcome.value.instructions[n].keys :
                               outcome.value.instructions[n].keys[j][1]
                                   = "transient"}} :
                n \in DOMAIN outcome.value.instructions}

\* C26: increaseValidatorStake and decreaseValidatorStake use the seed
\* transientSeedSuffixStart + 1 without an ephemeral seed and
\* transientSeedSuffixStart with one, and over a sequence of such calls no
\* call derives the transient stake account an earlier call of the sequence
\* derived.
C26_SeedBumpAvoidsReuse ==
    /\ \A fn \in {"increaseValidatorStake", "decreaseValidatorStake"} :
           Succeeded(fn) =>
               \A n \in DOMAIN Outcome.value.instructions :
                   Outcome.value.instructions[n].data.transientStakeSeed
                       = find(validatorList, invoked.args.validatorVote)[1]
                             .transientSeedSuffixStart
                         + IF WithEphemeralSeed THEN 0 ELSE 1
    /\ invoked.fn \in {"increaseValidatorStake", "decreaseValidatorStake"} =>
           \A i, j \in DOMAIN returned :
               i < j => TransientAccounts(returned[i])
                            \cap TransientAccounts(returned[j]) = {}

\* C30: updateStakePool returns one UpdateValidatorListBalance instruction
\* for each consecutive chunk of at most 5 validators of the list; the
\* startIndex of an instruction is the list index of the first validator of
\* its chunk and the accounts after its seven fixed ones are the validator
\* stake and transient stake addresses of the validators of the chunk, in
\* list order, so that every validator is covered once; the final
\* instructions are UpdateStakePoolBalance, then
\* CleanupRemovedValidatorEntries.
C30_UpdateCoversList ==
    Succeeded("updateStakePool") =>
        LET update == Outcome.value.updateListInstructions
            final == Outcome.value.finalInstructions
            trailing(c) == SubSeq(update[c].keys, 8, Len(update[c].keys))
            size(c) == Len(trailing(c)) \div 2
            start(c) == update[c].data.startIndex
        IN  /\ \A c \in DOMAIN update :
                   /\ update[c].instruction = "UpdateValidatorListBalance"
                   /\ Len(trailing(c)) = 2 * size(c)
                   /\ size(c) \in 1 .. 5
                   /\ start(c) = IF c = 1 THEN 0
                                 ELSE start(c - 1) + size(c - 1)
                   /\ start(c) + size(c) <= Len(validatorList)
                   /\ \A k \in 1 .. size(c) :
                          LET validator == validatorList[start(c) + k]
                          IN  /\ trailing(c)[2 * k - 1]
                                     = <<"stake", validator.voteAccountAddress>>
                              /\ trailing(c)[2 * k]
                                     = <<"transient",
                                         validator.voteAccountAddress,
                                         validator.transientSeedSuffixStart>>
            /\ IF validatorList = <<>>
               THEN update = <<>>
               ELSE /\ update # <<>>
                    /\ start(Len(update)) + size(Len(update))
                           = Len(validatorList)
            /\ \A c \in 1 .. Len(update) - 1 : size(c) = 5
            /\ Len(final) = 2
            /\ final[1].instruction = "UpdateStakePoolBalance"
            /\ final[2].instruction = "CleanupRemovedValidatorEntries"

C30_Witness ==
    /\ Succeeded("updateStakePool")
    /\ Len(validatorList) > 2 * MAX_VALIDATORS_TO_UPDATE
    /\ Len(validatorList) % MAX_VALIDATORS_TO_UPDATE # 0
    /\ Len(Outcome.value.updateListInstructions) = 3

====
